---- MODULE Spec2Model ----
(***************************************************************************)
(* The client websocket transport of client/comms/wsconn.go: one wsConn,   *)
(* its goroutines (Connect, keepAlive, read, the shutdown watcher, request *)
(* callers, response callbacks, timers) and the peer, as a state machine.  *)
(* Steps are cut at the synchronisation points of the code: an atomic      *)
(* operation, a critical section of wsMtx, a critical section of reqMtx,   *)
(* a channel operation, a context check.                                   *)
(***************************************************************************)
EXTENDS Integers, Sequences, FiniteSets, TLC

\* ------------------------------------------------------------------ bounds
\* Registrations (calls of RequestRawWithTimeout) made over a run.
MaxReqs == 2
\* Request IDs the callers draw from; the API takes any caller-chosen ID.
MaxID == 2
\* Failed dials the network injects over a run.
MaxDialFails == 2
\* Failed dials over a run of the backoff specification: enough to reach
\* the cap of the interval and stay there.
MaxDialFailsKA == 13
\* Fatal read errors the network injects over a run.
MaxReadErrs == 2
\* Non-response messages the peer sends over a run.
MaxMsgs == 2
\* Capacity of the inbound channel, scaled down from readBuffSize = 128.
ReadChCap == 1
\* URLs that UpdateURL is called with; the first is the configured one.
MaxURL == 2
\* Width in bits of the request ID counter, scaled down from 64.
IDBits == 3
\* Arb sequences the bot starts over a run.
MaxArbs == 3
\* Epochs the bot rebalances at over a run.
MaxEpoch == 3
\* The bot's configuration, scaled down from the 10 and 5 of the tests.
NumEpochsLeaveOpen == 1
MaxActiveArbs == 2
\* Lots the books, and the balances, offer to one arb.
MaxLots == 2

\* ------------------------------------------------------- program constants
\* reconnectInterval and maxReconnectInterval, in seconds.
reconnectInterval == 5
maxReconnectInterval == 60

NULL == 0
Reqs == 1..MaxReqs
IDs == 1..MaxID
\* Read loops are numbered in the order they are started.
Readers == 1..(MaxReadErrs + 1)
URLs == 1..MaxURL
\* The values of the request ID counter.
IDMod == 2 ^ IDBits
\* Calls of NextID over a run: enough for the counter to wrap.
MaxNextID == IDMod + 2

\* ConnectionStatus
Disconnected == "Disconnected"
Connected == "Connected"
InvalidCert == "InvalidCert"

VARIABLES
  \* wsConn fields
  connectionStatus,   \* atomic status cell
  ws,                 \* conn.ws: the installed socket, NULL when nil
  readCh,             \* inbound channel: the buffered messages
  readChClosed,       \* close(conn.readCh) has run
  reconnectCh,        \* number of triggers buffered (capacity 1)
  respHandlers,       \* id -> the registration of its entry, NULL when absent
  reqMtx,             \* holder of conn.reqMtx, "free" when unlocked
  ctxDone,            \* ctxInternal is cancelled
  urlV,               \* conn.urlV: the stored URL
  rID,                \* conn.rID: the request ID counter
  wsMtx,              \* the request whose SendRaw holds conn.wsMtx, NULL if none
  \* configuration
  disableAutoReconnect,
  rawHandler,         \* cfg.RawHandler is set: raw mode
  \* the peer and the network
  open,               \* sockets dialled and not yet closed
  nsock,              \* sockets dialled so far
  faults,             \* failed dials injected so far
  rerrs,              \* fatal read errors injected so far
  nreaders,           \* read loops started so far
  nmsg,               \* non-response messages sent by the peer so far
  \* goroutines
  cpc,                \* Connect: "new", "connect", "returned", "failed"
  dpc, dcaller, dsock, dstatus, derr,    \* connect(): position and locals
  dialURL,            \* connect(): the URL handed to DialContext, NULL before
  kpc, rcInt,         \* keepAlive: position and backoff interval
  wpc,                \* shutdown watcher
  rpc, rsock, rmsg,   \* read loops, one per successful dial
  trigTimers,         \* armed time.AfterFunc timers that post a trigger
  rq, rid, timer, ret,        \* request callers and their expiry timers
  cbPending,          \* response callbacks spawned and not yet run
  panicked,           \* the process has panicked
  \* observation (history) variables
  lastHook,           \* last status passed to ConnectEventFunc
  owed,               \* status changes not yet passed to ConnectEventFunc
  ranF, ranExpire,    \* per registration: runs of f, runs of expire/abort
  drained,            \* per registration: aborts run by the shutdown drain
  atDrain,            \* registrations in the registry when the drain began
  closeCount,         \* number of close(conn.readCh) executed
  issued,             \* the values NextID has returned, in order
  syncRuns,           \* ReconnectSync invocations
  reconnects,         \* successful keepAlive dials
  fails,              \* consecutive failed keepAlive dials
  lastDelay,          \* delay of the last scheduled keepAlive retry, 0 if none
  msgType,            \* per call of RequestWithTimeout: the message it was given
  wire,               \* the frames SendRaw has written: socket and request
  lockOrder,          \* the requests in the order their SendRaw took wsMtx
  rawSeen,            \* the frames passed to RawHandler, in order
  \* the simple-arb bot
  activeArbs,         \* a.activeArbs: the arb sequences in progress
  currEpoch,          \* the epoch of the last rebalance
  arbsStarted,        \* arb sequences started so far
  dexCancels,         \* DEX orders cancelled by the last rebalance, in order
  cexCancels,         \* CEX orders cancelled by the last rebalance, in order
  arbFound,           \* the arb the last rebalance found: "none", "buyOnDEX", "sellOnDEX"
  arbsBefore,         \* activeArbs as the last rebalance's cancel loop found them
  lastUpdate,         \* the last order or trade update: exchange, order, status
  dexOrder,           \* lots of the DEX order the last rebalance placed, 0 if none
  cexTrade,           \* lots of the CEX trade the last rebalance placed, 0 if none
  cexTradeErr,        \* the CEX fails the trades of the last rebalance
  dexMaxQty,          \* lots the DEX balance allows on the side the books favour
  cexMaxQty,          \* lots the CEX balance allows on the side the books favour
  ratesCross          \* the arb's DEX rate crosses that of the bot's own orders

vars == << connectionStatus, ws, readCh, readChClosed, reconnectCh, respHandlers,
           reqMtx, ctxDone, disableAutoReconnect, open, nsock, faults, rerrs,
           nreaders, nmsg,
           cpc, dpc, dcaller, dsock, dstatus, derr, kpc, rcInt, wpc,
           rpc, rsock, rmsg, trigTimers, rq, rid, timer, ret, cbPending,
           panicked, lastHook, owed, ranF, ranExpire, drained,
           atDrain, closeCount, syncRuns, reconnects, fails, lastDelay,
           urlV, rID, dialURL, issued, rawHandler, msgType, wsMtx, wire,
           lockOrder, rawSeen, activeArbs, currEpoch, arbsStarted, dexCancels,
           cexCancels, arbFound, arbsBefore, lastUpdate, dexOrder, cexTrade,
           cexTradeErr, dexMaxQty, cexMaxQty, ratesCross >>

\* Groups of variables, for UNCHANGED.
connVars == << connectionStatus, ws, open, nsock >>
hookVars == << lastHook, owed >>
dialVars == << dpc, dcaller, dsock, dstatus, derr >>
kaVars == << kpc, rcInt, trigTimers, syncRuns, reconnects, fails, lastDelay >>
readVars == << rpc, rsock, rmsg, nmsg, nreaders, rerrs >>
chanVars == << readCh, readChClosed, closeCount >>
regVars == << respHandlers, reqMtx, timer, ranF, ranExpire, cbPending, drained, atDrain >>
reqVars == << rq, rid, ret >>
\* SendRaw's critical section and what it has written.
sendVars == << wsMtx, wire, lockOrder >>
\* The simple-arb bot: what the last rebalance was offered and what it placed.
execVars == << dexOrder, cexTrade, cexTradeErr, dexMaxQty, cexMaxQty, ratesCross >>
\* The simple-arb bot.
arbVars == << activeArbs, currEpoch, arbsStarted, dexCancels, cexCancels, arbFound,
             arbsBefore, lastUpdate, execVars >>
\* The configuration, the stored URL, the ID counter, and what only the
\* callers of RequestWithTimeout, SendRaw, RawHandler and the bot change.
cfgVars == << disableAutoReconnect, urlV, rID, issued, rawHandler, msgType,
             sendVars, rawSeen, arbVars >>

\* NewWsConn, lines 181-219: the state after construction, in raw mode when
\* the configuration has a RawHandler.
NewWsConn(raw) ==
  /\ connectionStatus = Disconnected
  /\ ws = NULL
  /\ readCh = << >>
  /\ readChClosed = FALSE
  /\ reconnectCh = 0
  /\ respHandlers = [i \in IDs |-> NULL]
  /\ reqMtx = "free"
  /\ ctxDone = FALSE
  /\ disableAutoReconnect \in BOOLEAN
  /\ open = {}
  /\ nsock = 0
  /\ faults = 0
  /\ rerrs = 0
  /\ nreaders = 0
  /\ nmsg = 0
  /\ cpc = "new"
  /\ dpc = "idle" /\ dcaller = "none" /\ dsock = NULL
  /\ dstatus = Disconnected /\ derr = "none"
  /\ kpc = "none" /\ rcInt = reconnectInterval
  /\ wpc = "none"
  /\ rpc = [s \in Readers |-> "none"]
  /\ rsock = [s \in Readers |-> NULL]
  /\ rmsg = [s \in Readers |-> NULL]
  /\ trigTimers = 0
  /\ rq = [r \in Reqs |-> "idle"]
  /\ rid = [r \in Reqs |-> NULL]
  /\ timer = [r \in Reqs |-> "none"]
  /\ ret = [r \in Reqs |-> "none"]
  /\ cbPending = {}
  /\ panicked = FALSE
  /\ lastHook = Disconnected
  /\ owed = 0
  /\ ranF = [r \in Reqs |-> 0]
  /\ ranExpire = [r \in Reqs |-> 0]
  /\ drained = [r \in Reqs |-> 0]
  /\ atDrain = {}
  /\ closeCount = 0
  /\ syncRuns = 0
  /\ reconnects = 0
  /\ fails = 0
  /\ lastDelay = 0
  /\ urlV = 1
  /\ dialURL = NULL
  /\ rID = 0
  /\ issued = << >>
  /\ rawHandler = raw
  /\ msgType = [r \in Reqs |-> "none"]
  /\ wsMtx = NULL
  /\ wire = << >>
  /\ lockOrder = << >>
  /\ rawSeen = << >>

\* The bot before its first epoch: no arb sequence is active.
NewArbBot ==
  /\ activeArbs = << >>
  /\ currEpoch = 0
  /\ arbsStarted = 0
  /\ dexCancels = << >>
  /\ cexCancels = << >>
  /\ arbFound = "none"
  /\ arbsBefore = << >>
  /\ lastUpdate = << "none", 0, "none" >>
  /\ dexOrder = 0
  /\ cexTrade = 0
  /\ cexTradeErr = FALSE
  /\ dexMaxQty = 0
  /\ cexMaxQty = 0
  /\ ratesCross = FALSE

\* A connection in structured mode.
Init == NewWsConn(FALSE) /\ NewArbBot

\* A connection in either mode.
InitModes == (\E raw \in BOOLEAN : NewWsConn(raw)) /\ NewArbBot

\* ------------------------------------------------------- status register

\* A setConnectionStatus that runs the hook on every call.
statusChangeAlways(oldStatus, status) == TRUE

\* setConnectionStatus, line 238: the swapped-out status differs from the new.
statusChange(oldStatus, status) == oldStatus # status

\* setConnectionStatus, line 237: the atomic swap. The hook, if owed, is run
\* by the same goroutine in a later step.
SwapStatus(status) ==
  /\ connectionStatus' = status
  /\ owed' = IF statusChange(connectionStatus, status) THEN owed + 1 ELSE owed
  /\ UNCHANGED lastHook

\* setConnectionStatus, line 240: conn.cfg.ConnectEventFunc(status).
RunHook(status) ==
  /\ lastHook' = status
  /\ owed' = owed - 1
  /\ UNCHANGED connectionStatus

\* An IsDown that never reports the connection down.
IsDownNever == FALSE

\* IsDown
IsDown == connectionStatus # Connected

\* conn.close(): the close frame is best effort, the socket is closed.
CloseSock(s) == open \ {s}

\* ------------------------------------------------------ URL and ID counter

\* A connect that dials the URL of its previous dial.
urlOfLastDial == dialURL

\* url, lines 225-227: conn.urlV.Load(). connect loads it as it calls
\* DialContext (line 256); the dial begins with that load.
url == urlV

\* UpdateURL, lines 221-223: conn.urlV.Store(uri).
UpdateURL(uri) ==
  /\ ~panicked
  /\ urlV' = uri
  /\ UNCHANGED << connVars, hookVars, dialVars, dialURL, kaVars, readVars, chanVars,
                  regVars, reqVars, reconnectCh, ctxDone, cpc, wpc, faults,
                  disableAutoReconnect, rID, issued, rawHandler, msgType,
                  sendVars, rawSeen, arbVars, panicked >>

\* An add that returns the counter without advancing it.
addUint64Stuck(v) == v

\* atomic.AddUint64(&conn.rID, 1), at the counter's width.
addUint64(v) == (v + 1) % IDMod

\* NextID, lines 503-505: one atomic step that advances the counter and
\* returns its new value.
NextID ==
  /\ ~panicked /\ Len(issued) < MaxNextID
  /\ rID' = addUint64(rID)
  /\ issued' = Append(issued, addUint64(rID))
  /\ UNCHANGED << connVars, hookVars, dialVars, dialURL, kaVars, readVars, chanVars,
                  regVars, reqVars, reconnectCh, ctxDone, cpc, wpc, faults,
                  disableAutoReconnect, urlV, rawHandler, msgType, sendVars,
                  rawSeen, arbVars, panicked >>

\* ------------------------------------------------------------ connect()

\* connect, lines 315-323: the read loop is started on the installed socket;
\* its first act is to snapshot conn.ws.
SpawnReader ==
  /\ nreaders' = nreaders + 1
  /\ rpc' = [rpc EXCEPT ![nreaders + 1] = "read"]
  /\ rsock' = [rsock EXCEPT ![nreaders + 1] = ws]
  /\ UNCHANGED << rmsg, nmsg, rerrs >>

\* The end of setConnectionStatus inside connect: on success the reader is
\* spawned and connect returns nil, on failure connect returns the error.
ConnectFinish ==
  /\ dpc' = "ret"
  /\ IF derr = "none" THEN SpawnReader ELSE UNCHANGED readVars
  /\ UNCHANGED << dcaller, dsock, dstatus, derr >>

\* connect, lines 258-266: the error connect returns for a failed
\* DialContext, given the length of the configured certificate.
connectErr(err, certLen) ==
  IF err = "cert"
    THEN IF certLen = 0 THEN "ErrCertRequired" ELSE "ErrInvalidCert"
    ELSE err

\* connect, line 256: DialContext returns. A cancelled context fails the
\* dial; otherwise the network decides. mf bounds the injected failures,
\* mr the read loops (one more than the injected read errors).
Dial(mf, mr) ==
  /\ ~panicked /\ dpc = "dial"
  /\ \/ \* success: a new socket, read deadline set, ping handler installed
        /\ ~ctxDone /\ nreaders < mr + 1
        /\ nsock' = nsock + 1 /\ open' = open \cup {nsock + 1}
        /\ dsock' = nsock + 1 /\ dstatus' = Connected /\ derr' = "none"
        /\ dpc' = "install"
        /\ UNCHANGED faults
     \/ \* invalid certificate (lines 258-264)
        /\ faults < mf /\ faults' = faults + 1
        /\ dstatus' = InvalidCert /\ derr' = "cert" /\ dpc' = "swap"
        /\ UNCHANGED << nsock, open, dsock >>
     \/ \* any other dial error (lines 265-266)
        /\ \/ faults < mf /\ faults' = faults + 1
           \/ ctxDone /\ UNCHANGED faults
        /\ dstatus' = Disconnected /\ derr' = "fail" /\ dpc' = "swap"
        /\ UNCHANGED << nsock, open, dsock >>
     \/ \* dialled, but SetReadDeadline fails (lines 271-275): the error is
        \* returned with the status untouched; the new socket is never
        \* installed and is not tracked
        /\ ~ctxDone /\ faults < mf
        /\ faults' = faults + 1
        /\ derr' = "fail" /\ dpc' = "ret"
        /\ UNCHANGED << nsock, open, dsock, dstatus >>
  /\ UNCHANGED << connectionStatus, ws, hookVars, dcaller, readVars, chanVars,
                  regVars, reqVars, kaVars, reconnectCh, ctxDone, cpc, wpc,
                  cfgVars, dialURL, panicked >>

\* connect, lines 305-312: under wsMtx, close the prior socket, install ws.
Install ==
  /\ ~panicked /\ dpc = "install" /\ wsMtx = NULL
  /\ open' = IF ws # NULL THEN CloseSock(ws) ELSE open
  /\ ws' = dsock
  /\ dpc' = "swap"
  /\ reconnects' = IF dcaller = "keepAlive" THEN reconnects + 1 ELSE reconnects
  /\ UNCHANGED << connectionStatus, nsock, hookVars, dcaller, dsock, dstatus, derr,
                  readVars, chanVars, regVars, reqVars, kpc, rcInt, trigTimers,
                  syncRuns, fails, lastDelay, reconnectCh, ctxDone, cpc, wpc,
                  faults, cfgVars, dialURL, panicked >>

\* connect, lines 259, 265, 314: setConnectionStatus, the swap.
DialSwap ==
  /\ ~panicked /\ dpc = "swap"
  /\ SwapStatus(dstatus)
  /\ IF statusChange(connectionStatus, dstatus)
       THEN dpc' = "hook" /\ UNCHANGED << dcaller, dsock, dstatus, derr, readVars >>
       ELSE ConnectFinish
  /\ UNCHANGED << ws, open, nsock, chanVars, regVars, reqVars, kaVars, reconnectCh,
                  ctxDone, cpc, wpc, faults, cfgVars, dialURL, panicked >>

\* connect: the hook of that setConnectionStatus.
DialHook ==
  /\ ~panicked /\ dpc = "hook"
  /\ RunHook(dstatus)
  /\ ConnectFinish
  /\ UNCHANGED << ws, open, nsock, chanVars, regVars, reqVars, kaVars, reconnectCh,
                  ctxDone, cpc, wpc, faults, cfgVars, dialURL, panicked >>

\* ------------------------------------------------------- Connect and Stop

\* Connect, lines 511-514: derive ctxInternal, call connect.
Connect ==
  /\ ~panicked /\ cpc = "new"
  /\ cpc' = "connect"
  /\ dpc' = "dial" /\ dcaller' = "Connect" /\ derr' = "none"
  /\ dialURL' = url
  /\ UNCHANGED << connVars, hookVars, dsock, dstatus, readVars, chanVars, regVars,
                  reqVars, kaVars, reconnectCh, ctxDone, wpc, faults,
                  cfgVars, panicked >>

\* A Connect that starts the watcher and no keepalive loop.
StartLoopsNoKeepAlive ==
  /\ kpc' = kpc
  /\ wpc' = "wait"
  /\ cpc' = "returned"

\* Connect, lines 533-565: the keepalive loop (unless disabled) and the
\* shutdown watcher are started.
StartLoops ==
  /\ kpc' = IF disableAutoReconnect THEN kpc ELSE "select"
  /\ wpc' = "wait"
  /\ cpc' = "returned"

\* Connect, lines 515, 533-567: connect returned nil.
ConnectOk ==
  /\ ~panicked /\ cpc = "connect" /\ dpc = "ret" /\ derr = "none"
  /\ StartLoops
  /\ dpc' = "idle"
  /\ UNCHANGED << connVars, hookVars, dcaller, dsock, dstatus, derr, readVars,
                  chanVars, regVars, reqVars, rcInt, trigTimers, syncRuns,
                  reconnects, fails, lastDelay, reconnectCh, ctxDone, faults,
                  cfgVars, dialURL, panicked >>

\* A Connect that fails hard on certificate errors only.
hardFailureCertOnly(err) == err = "cert"

\* Connect, line 518: the errors that end Connect without a WaitGroup.
hardFailure(err) == disableAutoReconnect \/ err = "cert"

\* Connect, lines 518-523: cancel, wait, close the inbound channel.
ConnectHardFail ==
  /\ ~panicked /\ cpc = "connect" /\ dpc = "ret" /\ derr # "none"
  /\ hardFailure(derr)
  /\ ctxDone' = TRUE
  /\ IF readChClosed THEN panicked' = TRUE ELSE UNCHANGED panicked
  /\ readChClosed' = TRUE /\ closeCount' = closeCount + 1
  /\ cpc' = "failed" /\ dpc' = "idle"
  /\ UNCHANGED << connVars, hookVars, dcaller, dsock, dstatus, derr, readVars, readCh,
                  regVars, reqVars, kaVars, reconnectCh, wpc, faults,
                  cfgVars, dialURL >>

\* Connect, lines 527-567: a trigger is scheduled in 5 s, the loops start.
ConnectSoftFail ==
  /\ ~panicked /\ cpc = "connect" /\ dpc = "ret" /\ derr # "none"
  /\ ~hardFailure(derr)
  /\ trigTimers' = trigTimers + 1
  /\ StartLoops
  /\ dpc' = "idle"
  /\ UNCHANGED << connVars, hookVars, dcaller, dsock, dstatus, derr, readVars,
                  chanVars, regVars, reqVars, rcInt, syncRuns, reconnects, fails,
                  lastDelay, reconnectCh, ctxDone, faults, cfgVars, dialURL,
                  panicked >>

\* Stop, or the cancellation of the context passed to Connect. Stop needs
\* conn.cancel, which Connect sets; the caller's context may be cancelled
\* at any time. A second Stop changes nothing.
Stop ==
  /\ ~panicked
  /\ ctxDone' = TRUE
  /\ UNCHANGED << connVars, hookVars, dialVars, readVars, chanVars, regVars, reqVars,
                  kaVars, reconnectCh, cpc, wpc, faults, cfgVars, dialURL,
                  panicked >>

\* ------------------------------------------------------------- keepAlive

\* A keepAlive that dials on a trigger without looking at the context.
KaTriggerNoCheck ==
  /\ ~panicked /\ kpc = "select" /\ reconnectCh > 0
  /\ reconnectCh' = reconnectCh - 1
  /\ kpc' = "connect"
  /\ dpc' = "dial" /\ dcaller' = "keepAlive" /\ derr' = "none"
  /\ dialURL' = url
  /\ UNCHANGED << dsock, dstatus >>
  /\ UNCHANGED << connVars, hookVars, readVars, chanVars, regVars, reqVars, rcInt,
                  trigTimers, syncRuns, reconnects, fails, lastDelay, ctxDone, cpc,
                  wpc, faults, cfgVars, panicked >>

\* keepAlive, lines 466-474: a trigger is received; cancellation is
\* re-checked before dialling.
KaTrigger ==
  /\ ~panicked /\ kpc = "select" /\ reconnectCh > 0
  /\ reconnectCh' = reconnectCh - 1
  /\ IF ctxDone
       THEN kpc' = "done" /\ UNCHANGED << dialVars, dialURL >>
       ELSE /\ kpc' = "connect"
            /\ dpc' = "dial" /\ dcaller' = "keepAlive" /\ derr' = "none"
            /\ dialURL' = url
            /\ UNCHANGED << dsock, dstatus >>
  /\ UNCHANGED << connVars, hookVars, readVars, chanVars, regVars, reqVars, rcInt,
                  trigTimers, syncRuns, reconnects, fails, lastDelay, ctxDone, cpc,
                  wpc, faults, cfgVars, panicked >>

\* keepAlive, lines 496-497: case <-ctx.Done().
KaCtxDone ==
  /\ ~panicked /\ kpc = "select" /\ ctxDone
  /\ kpc' = "done"
  /\ UNCHANGED << connVars, hookVars, dialVars, readVars, chanVars, regVars, reqVars,
                  rcInt, trigTimers, syncRuns, reconnects, fails, lastDelay,
                  reconnectCh, ctxDone, cpc, wpc, faults, cfgVars, dialURL,
                  panicked >>

\* A keepAlive whose interval grows without the cap.
nextIntervalNoCap(rc) == rc + reconnectInterval

\* keepAlive, lines 482-484: the interval after a failed attempt.
nextInterval(rc) ==
  IF rc < maxReconnectInterval THEN rc + reconnectInterval ELSE rc

\* keepAlive, lines 475-486: connect failed; a trigger is scheduled after
\* rcInt, then rcInt grows.
KaConnectFail ==
  /\ ~panicked /\ kpc = "connect" /\ dpc = "ret" /\ derr # "none"
  /\ trigTimers' = trigTimers + 1
  /\ lastDelay' = rcInt
  /\ fails' = fails + 1
  /\ rcInt' = nextInterval(rcInt)
  /\ kpc' = "select" /\ dpc' = "idle"
  /\ UNCHANGED << connVars, hookVars, dcaller, dsock, dstatus, derr, readVars,
                  chanVars, regVars, reqVars, syncRuns, reconnects, reconnectCh,
                  ctxDone, cpc, wpc, faults, cfgVars, dialURL, panicked >>

\* A keepAlive that schedules a retry after a successful connect too.
KaConnectOkRetry ==
  /\ ~panicked /\ kpc = "connect" /\ dpc = "ret" /\ derr = "none"
  /\ rcInt' = reconnectInterval
  /\ fails' = 0
  /\ syncRuns' = syncRuns + 1
  /\ trigTimers' = trigTimers + 1
  /\ kpc' = "select" /\ dpc' = "idle"
  /\ UNCHANGED << connVars, hookVars, dcaller, dsock, dstatus, derr, readVars,
                  chanVars, regVars, reqVars, reconnects, lastDelay,
                  reconnectCh, ctxDone, cpc, wpc, faults, cfgVars, dialURL,
                  panicked >>

\* keepAlive, lines 488-494: connect succeeded; the interval is reset and
\* ReconnectSync runs.
KaConnectOk ==
  /\ ~panicked /\ kpc = "connect" /\ dpc = "ret" /\ derr = "none"
  /\ rcInt' = reconnectInterval
  /\ fails' = 0
  /\ syncRuns' = syncRuns + 1
  /\ kpc' = "select" /\ dpc' = "idle"
  /\ UNCHANGED << connVars, hookVars, dcaller, dsock, dstatus, derr, readVars,
                  chanVars, regVars, reqVars, trigTimers, reconnects, lastDelay,
                  reconnectCh, ctxDone, cpc, wpc, faults, cfgVars, dialURL,
                  panicked >>

\* The time.AfterFunc of lines 478-480 and 528-530 fires: a send on
\* reconnectCh, which blocks while the channel is full.
TriggerTimerFire ==
  /\ ~panicked /\ trigTimers > 0 /\ reconnectCh < 1
  /\ trigTimers' = trigTimers - 1
  /\ reconnectCh' = reconnectCh + 1
  /\ UNCHANGED << connVars, hookVars, dialVars, readVars, chanVars, regVars, reqVars,
                  kpc, rcInt, syncRuns, reconnects, fails, lastDelay, ctxDone, cpc,
                  wpc, faults, cfgVars, dialURL, panicked >>

\* -------------------------------------------------------- request registry

\* A Stop that leaves the timer armed.
StopTimerNot(tm, r) == tm

\* time.Timer.Stop: an armed timer is stopped; one that already fired (its
\* function is running or about to) is not affected.
StopTimer(tm, r) == IF tm[r] = "armed" THEN [tm EXCEPT ![r] = "stopped"] ELSE tm

\* The registrations that have an entry in respHandlers.
Registered == {respHandlers[i] : i \in IDs} \ {NULL}

\* ------------------------------------------------------------ read loop

\* A connect that starts the structured read loop whatever the
\* configuration.
rawModeNever == FALSE

\* connect, lines 318-322: the read loop is readRaw when a RawHandler is
\* configured, read otherwise.
rawMode == rawHandler

\* read, lines 413-418 (top of the loop): snapshot conn.ws under wsMtx.
NextRead(s) ==
  /\ rpc' = [rpc EXCEPT ![s] = "read"]
  /\ rsock' = [rsock EXCEPT ![s] = ws]

\* A reader that takes the error of a read after cancellation to
\* handleReadError.
ReadCancelledAsError(s) ==
  /\ ~panicked /\ rpc[s] = "read" /\ ctxDone
  /\ rpc' = [rpc EXCEPT ![s] = "swap"]
  /\ UNCHANGED << connVars, hookVars, dialVars, rsock, rmsg, nmsg, nreaders, rerrs, chanVars, regVars,
                  reqVars, kaVars, reconnectCh, ctxDone, cpc, wpc, faults,
                  cfgVars, dialURL, panicked >>

\* read, lines 422-426, and readRaw, lines 396-400: the read returns and the context is cancelled.
ReadCancelled(s) ==
  /\ ~panicked /\ rpc[s] = "read" /\ ctxDone
  /\ rpc' = [rpc EXCEPT ![s] = "done"]
  /\ UNCHANGED << connVars, hookVars, dialVars, rsock, rmsg, nmsg, nreaders, rerrs, chanVars, regVars,
                  reqVars, kaVars, reconnectCh, ctxDone, cpc, wpc, faults,
                  cfgVars, dialURL, panicked >>

\* read, lines 422, 456: a request or notification was read.
ReadNote(s) ==
  /\ ~panicked /\ rpc[s] = "read" /\ ~ctxDone /\ ~rawMode
  /\ rsock[s] \in open /\ nmsg < MaxMsgs
  /\ nmsg' = nmsg + 1
  /\ rmsg' = [rmsg EXCEPT ![s] = nmsg + 1]
  /\ rpc' = [rpc EXCEPT ![s] = "push"]
  /\ UNCHANGED << connVars, hookVars, dialVars, rsock, nreaders, rerrs, chanVars, regVars, reqVars,
                  kaVars, reconnectCh, ctxDone, cpc, wpc, faults,
                  cfgVars, dialURL, panicked >>

\* read, lines 422, 439: a response was read; the peer chooses its ID.
ReadResponse(s) ==
  /\ ~panicked /\ rpc[s] = "read" /\ ~ctxDone /\ ~rawMode
  /\ rsock[s] \in open
  /\ \E id \in IDs : rmsg' = [rmsg EXCEPT ![s] = id]
  /\ rpc' = [rpc EXCEPT ![s] = "resp"]
  /\ UNCHANGED << connVars, hookVars, dialVars, rsock, nmsg, nreaders, rerrs, chanVars, regVars,
                  reqVars, kaVars, reconnectCh, ctxDone, cpc, wpc, faults,
                  cfgVars, dialURL, panicked >>

\* A reader that takes a JSON type error to handleReadError.
ReadTypeErrorFatal(s) ==
  /\ ~panicked /\ rpc[s] = "read" /\ ~ctxDone /\ ~rawMode
  /\ rsock[s] \in open
  /\ rpc' = [rpc EXCEPT ![s] = "swap"]
  /\ UNCHANGED << connVars, hookVars, dialVars, rsock, rmsg, nmsg, nreaders, rerrs, chanVars, regVars,
                  reqVars, kaVars, reconnectCh, ctxDone, cpc, wpc, faults,
                  cfgVars, dialURL, panicked >>

\* read, lines 427-433: a JSON type error is logged and the loop continues.
ReadTypeError(s) ==
  /\ ~panicked /\ rpc[s] = "read" /\ ~ctxDone /\ ~rawMode
  /\ rsock[s] \in open
  /\ NextRead(s)
  /\ UNCHANGED << connVars, hookVars, dialVars, rmsg, nmsg, nreaders, rerrs, chanVars, regVars,
                  reqVars, kaVars, reconnectCh, ctxDone, cpc, wpc, faults,
                  cfgVars, dialURL, panicked >>

\* read, lines 434-435: any other read error goes to handleReadError. A
\* closed socket always fails the read; an open one fails by a fault; mr bounds
\* the injected read errors.
ReadError(s, mr) ==
  /\ ~panicked /\ rpc[s] = "read" /\ ~ctxDone
  /\ \/ rsock[s] \notin open /\ UNCHANGED rerrs
     \/ rsock[s] \in open /\ rerrs < mr /\ rerrs' = rerrs + 1
  /\ rpc' = [rpc EXCEPT ![s] = "swap"]
  /\ UNCHANGED << connVars, hookVars, dialVars, rsock, rmsg, nmsg, nreaders, chanVars,
                  regVars, reqVars, kaVars, reconnectCh, ctxDone, cpc, wpc, faults,
                  cfgVars, dialURL, panicked >>

\* A handleReadError that always sends the trigger.
afterStatusTrigger == "trigger"

\* A handleReadError that never sends the trigger.
afterStatusNoTrigger == "done"

\* handleReadError, lines 338-343: after the status is set, the trigger is
\* sent unless auto-reconnect is disabled.
afterStatus == IF disableAutoReconnect THEN "done" ELSE "trigger"

\* A handleReadError that also clears the socket reference.
ReaderSwapClear(s) ==
  /\ ~panicked /\ rpc[s] = "swap"
  /\ SwapStatus(Disconnected)
  /\ ws' = NULL
  /\ rpc' = [rpc EXCEPT ![s] = IF statusChange(connectionStatus, Disconnected)
                                  THEN "hook" ELSE afterStatus]
  /\ UNCHANGED << open, nsock, dialVars, rsock, rmsg, nmsg, nreaders, rerrs, chanVars, regVars,
                  reqVars, kaVars, reconnectCh, ctxDone, cpc, wpc, faults,
                  cfgVars, dialURL, panicked >>

\* handleReadError, line 339: setConnectionStatus(Disconnected), the swap.
ReaderSwap(s) ==
  /\ ~panicked /\ rpc[s] = "swap"
  /\ SwapStatus(Disconnected)
  /\ rpc' = [rpc EXCEPT ![s] = IF statusChange(connectionStatus, Disconnected)
                                  THEN "hook" ELSE afterStatus]
  /\ UNCHANGED << ws, open, nsock, dialVars, rsock, rmsg, nmsg, nreaders, rerrs, chanVars, regVars,
                  reqVars, kaVars, reconnectCh, ctxDone, cpc, wpc, faults,
                  cfgVars, dialURL, panicked >>

\* handleReadError, line 339: the hook of that setConnectionStatus.
ReaderHook(s) ==
  /\ ~panicked /\ rpc[s] = "hook"
  /\ RunHook(Disconnected)
  /\ rpc' = [rpc EXCEPT ![s] = afterStatus]
  /\ UNCHANGED << ws, open, nsock, dialVars, rsock, rmsg, nmsg, nreaders, rerrs, chanVars, regVars,
                  reqVars, kaVars, reconnectCh, ctxDone, cpc, wpc, faults,
                  cfgVars, dialURL, panicked >>

\* A read loop that sends the trigger and goes on reading.
ReaderTriggerStay(s) ==
  /\ ~panicked /\ rpc[s] = "trigger" /\ reconnectCh < 1
  /\ reconnectCh' = reconnectCh + 1
  /\ rpc' = [rpc EXCEPT ![s] = "read"]
  /\ UNCHANGED << connVars, hookVars, dialVars, rsock, rmsg, nmsg, nreaders, rerrs, chanVars, regVars,
                  reqVars, kaVars, ctxDone, cpc, wpc, faults, cfgVars, dialURL,
                  panicked >>

\* handleReadError, line 341: conn.reconnectCh <- struct{}{}; the loop ends.
ReaderTrigger(s) ==
  /\ ~panicked /\ rpc[s] = "trigger" /\ reconnectCh < 1
  /\ reconnectCh' = reconnectCh + 1
  /\ rpc' = [rpc EXCEPT ![s] = "done"]
  /\ UNCHANGED << connVars, hookVars, dialVars, rsock, rmsg, nmsg, nreaders, rerrs, chanVars, regVars,
                  reqVars, kaVars, ctxDone, cpc, wpc, faults, cfgVars, dialURL,
                  panicked >>

\* A dispatch that ends the read loop on a response without a handler.
ReaderDispatchStrict(s) ==
  /\ ~panicked /\ rpc[s] = "resp" /\ reqMtx = "free"
  /\ LET id == rmsg[s]
         r == respHandlers[id]
     IN IF r = NULL
          THEN /\ rpc' = [rpc EXCEPT ![s] = "done"]
               /\ UNCHANGED << respHandlers, timer, cbPending, rsock >>
          ELSE /\ respHandlers' = [respHandlers EXCEPT ![id] = NULL]
               /\ timer' = StopTimer(timer, r)
               /\ cbPending' = cbPending \cup {r}
               /\ NextRead(s)
  /\ UNCHANGED << connVars, hookVars, dialVars, rmsg, nmsg, nreaders, rerrs, chanVars, reqMtx, ranF,
                  ranExpire, drained, atDrain, reqVars, kaVars, reconnectCh, ctxDone,
                  cpc, wpc, faults, cfgVars, dialURL, panicked >>

\* A dispatch that hands the response to any registered handler, whatever
\* its ID.
ReaderDispatchAnyID(s) ==
  /\ ~panicked /\ rpc[s] = "resp" /\ reqMtx = "free"
  /\ \E id \in IDs :
       LET r == respHandlers[id]
       IN /\ r # NULL
          /\ respHandlers' = [respHandlers EXCEPT ![id] = NULL]
          /\ timer' = StopTimer(timer, r)
          /\ cbPending' = cbPending \cup {r}
  /\ NextRead(s)
  /\ UNCHANGED << connVars, hookVars, dialVars, rmsg, nmsg, nreaders, rerrs, chanVars, reqMtx, ranF,
                  ranExpire, drained, atDrain, reqVars, kaVars, reconnectCh, ctxDone,
                  cpc, wpc, faults, cfgVars, dialURL, panicked >>

\* read, lines 440-454 with respHandler, lines 717-726: the entry of the
\* response's ID is removed under reqMtx and its timer stopped; the callback
\* is spawned. Without an entry the response is logged and dropped.
ReaderDispatch(s) ==
  /\ ~panicked /\ rpc[s] = "resp" /\ reqMtx = "free"
  /\ LET id == rmsg[s]
         r == respHandlers[id]
     IN IF r = NULL
          THEN UNCHANGED << respHandlers, timer, cbPending >>
          ELSE /\ respHandlers' = [respHandlers EXCEPT ![id] = NULL]
               /\ timer' = StopTimer(timer, r)
               /\ cbPending' = cbPending \cup {r}
  /\ NextRead(s)
  /\ UNCHANGED << connVars, hookVars, dialVars, rmsg, nmsg, nreaders, rerrs, chanVars, reqMtx, ranF,
                  ranExpire, drained, atDrain, reqVars, kaVars, reconnectCh, ctxDone,
                  cpc, wpc, faults, cfgVars, dialURL, panicked >>

\* read, lines 450-453: the spawned goroutine runs handler.f(msg).
Callback(r) ==
  /\ ~panicked /\ r \in cbPending
  /\ cbPending' = cbPending \ {r}
  /\ ranF' = [ranF EXCEPT ![r] = @ + 1]
  /\ UNCHANGED << connVars, hookVars, dialVars, readVars, chanVars, respHandlers,
                  reqMtx, timer, ranExpire, drained, atDrain, reqVars, kaVars,
                  reconnectCh, ctxDone, cpc, wpc, faults, cfgVars, dialURL,
                  panicked >>

\* A push that drops the message when the channel is full.
ReaderPushDrop(s) ==
  /\ ~panicked /\ rpc[s] = "push"
  /\ IF readChClosed
       THEN panicked' = TRUE /\ UNCHANGED << readCh, rpc, rsock >>
       ELSE /\ readCh' = IF Len(readCh) < ReadChCap
                            THEN Append(readCh, rmsg[s]) ELSE readCh
            /\ NextRead(s)
            /\ UNCHANGED panicked
  /\ UNCHANGED << connVars, hookVars, dialVars, rmsg, nmsg, nreaders, rerrs, readChClosed, closeCount,
                  regVars, reqVars, kaVars, reconnectCh, ctxDone, cpc, wpc, faults,
                  cfgVars, dialURL >>

\* read, line 456: conn.readCh <- msg. The send blocks while the channel is
\* full and panics once the channel is closed.
ReaderPush(s) ==
  /\ ~panicked /\ rpc[s] = "push"
  /\ IF readChClosed
       THEN panicked' = TRUE /\ UNCHANGED << readCh, rpc, rsock >>
       ELSE /\ Len(readCh) < ReadChCap
            /\ readCh' = Append(readCh, rmsg[s])
            /\ NextRead(s)
            /\ UNCHANGED panicked
  /\ UNCHANGED << connVars, hookVars, dialVars, rmsg, nmsg, nreaders, rerrs, readChClosed, closeCount,
                  regVars, reqVars, kaVars, reconnectCh, ctxDone, cpc, wpc, faults,
                  cfgVars, dialURL >>

\* readRaw, line 395: ws.ReadMessage returns a frame, of whatever type.
ReadRawFrame(s) ==
  /\ ~panicked /\ rpc[s] = "read" /\ ~ctxDone /\ rawMode
  /\ rsock[s] \in open /\ nmsg < MaxMsgs
  /\ nmsg' = nmsg + 1
  /\ rmsg' = [rmsg EXCEPT ![s] = nmsg + 1]
  /\ rpc' = [rpc EXCEPT ![s] = "raw"]
  /\ UNCHANGED << connVars, hookVars, dialVars, rsock, nreaders, rerrs, chanVars, regVars, reqVars,
                  kaVars, reconnectCh, ctxDone, cpc, wpc, faults,
                  cfgVars, dialURL, panicked >>

\* readRaw, line 405: conn.cfg.RawHandler(msgBytes), then the next read.
RawHandle(s) ==
  /\ ~panicked /\ rpc[s] = "raw"
  /\ rawSeen' = Append(rawSeen, rmsg[s])
  /\ NextRead(s)
  /\ UNCHANGED << connVars, hookVars, dialVars, rmsg, nmsg, nreaders, rerrs, chanVars,
                  regVars, reqVars, kaVars, reconnectCh, ctxDone, cpc, wpc, faults,
                  disableAutoReconnect, urlV, rID, issued, rawHandler, msgType,
                  sendVars, arbVars, dialURL, panicked >>

\* The consumer of MessageSource receives a message.
Receive ==
  /\ ~panicked /\ Len(readCh) > 0
  /\ readCh' = Tail(readCh)
  /\ UNCHANGED << connVars, hookVars, dialVars, readVars, readChClosed, closeCount,
                  regVars, reqVars, kaVars, reconnectCh, ctxDone, cpc, wpc, faults,
                  cfgVars, dialURL, panicked >>

\* ------------------------------------------------------ shutdown watcher

\* Connect, lines 544-545: the context is done; setConnectionStatus, swap.
WatcherSwap ==
  /\ ~panicked /\ wpc = "wait" /\ ctxDone
  /\ SwapStatus(Disconnected)
  /\ wpc' = IF statusChange(connectionStatus, Disconnected) THEN "hook" ELSE "close"
  /\ UNCHANGED << ws, open, nsock, dialVars, readVars, chanVars, regVars, reqVars,
                  kaVars, reconnectCh, ctxDone, cpc, faults, cfgVars, dialURL,
                  panicked >>

\* Connect, line 545: the hook of that setConnectionStatus.
WatcherHook ==
  /\ ~panicked /\ wpc = "hook"
  /\ RunHook(Disconnected)
  /\ wpc' = "close"
  /\ UNCHANGED << ws, open, nsock, dialVars, readVars, chanVars, regVars, reqVars,
                  kaVars, reconnectCh, ctxDone, cpc, faults, cfgVars, dialURL,
                  panicked >>

\* Connect, lines 546-551: under wsMtx, close the socket if there is one.
WatcherClose ==
  /\ ~panicked /\ wpc = "close" /\ wsMtx = NULL
  /\ open' = IF ws # NULL THEN CloseSock(ws) ELSE open
  /\ wpc' = "lock"
  /\ UNCHANGED << connectionStatus, ws, nsock, hookVars, dialVars, readVars, chanVars,
                  regVars, reqVars, kaVars, reconnectCh, ctxDone, cpc, faults,
                  cfgVars, dialURL, panicked >>

\* Connect, lines 554-555: conn.reqMtx.Lock(), released when the goroutine
\* returns.
WatcherLock ==
  /\ ~panicked /\ wpc = "lock" /\ reqMtx = "free"
  /\ reqMtx' = "watcher"
  /\ atDrain' = Registered
  /\ wpc' = "drain"
  /\ UNCHANGED << connVars, hookVars, dialVars, readVars, chanVars, respHandlers,
                  timer, ranF, ranExpire, cbPending, drained, reqVars, kaVars,
                  reconnectCh, ctxDone, cpc, faults, cfgVars, dialURL, panicked >>

\* Connect, lines 556-562: one iteration of the drain: delete the entry,
\* stop its timer, run its abort.
WatcherDrain ==
  /\ ~panicked /\ wpc = "drain"
  /\ \E id \in IDs :
       /\ respHandlers[id] # NULL
       /\ LET r == respHandlers[id]
          IN /\ respHandlers' = [respHandlers EXCEPT ![id] = NULL]
             /\ timer' = StopTimer(timer, r)
             /\ ranExpire' = [ranExpire EXCEPT ![r] = @ + 1]
             /\ drained' = [drained EXCEPT ![r] = @ + 1]
  /\ UNCHANGED << connVars, hookVars, dialVars, readVars, chanVars, reqMtx, ranF,
                  cbPending, atDrain, reqVars, kaVars, reconnectCh, ctxDone, cpc, wpc,
                  faults, cfgVars, dialURL, panicked >>

\* A watcher that closes the inbound channel before its drain loop is over.
WatcherCloseChEarly ==
  /\ ~panicked /\ wpc = "drain"
  /\ IF readChClosed THEN panicked' = TRUE ELSE UNCHANGED panicked
  /\ readChClosed' = TRUE /\ closeCount' = closeCount + 1
  /\ reqMtx' = "free"
  /\ wpc' = "done"
  /\ UNCHANGED << connVars, hookVars, dialVars, readVars, readCh, respHandlers, timer,
                  ranF, ranExpire, cbPending, drained, atDrain, reqVars, kaVars,
                  reconnectCh, ctxDone, cpc, faults, cfgVars, dialURL >>

\* Connect, line 564 and the deferred Unlock: the drain loop is over, the
\* inbound channel is closed, reqMtx is released, the watcher ends.
WatcherCloseCh ==
  /\ ~panicked /\ wpc = "drain" /\ Registered = {}
  /\ IF readChClosed THEN panicked' = TRUE ELSE UNCHANGED panicked
  /\ readChClosed' = TRUE /\ closeCount' = closeCount + 1
  /\ reqMtx' = "free"
  /\ wpc' = "done"
  /\ UNCHANGED << connVars, hookVars, dialVars, readVars, readCh, respHandlers, timer,
                  ranF, ranExpire, cbPending, drained, atDrain, reqVars, kaVars,
                  reconnectCh, ctxDone, cpc, faults, cfgVars, dialURL >>

\* ------------------------------------------------------------- requests

\* RequestRawWithTimeout, line 676, with logReq, lines 697-713: under
\* reqMtx the entry of id is set (replacing any entry the id had) and its
\* timer armed. Registrations are numbered in the order they are made, and
\* so are the IDs in the order they are first used.
LogReq(r) ==
  /\ ~panicked /\ rq[r] = "idle" /\ reqMtx = "free"
  /\ \A q \in Reqs : q < r => rq[q] # "idle"
  /\ \E id \in IDs :
       /\ \A j \in IDs : j < id => \E q \in Reqs : rid[q] = j
       /\ rid' = [rid EXCEPT ![r] = id]
       /\ respHandlers' = [respHandlers EXCEPT ![id] = r]
  /\ timer' = [timer EXCEPT ![r] = "armed"]
  /\ rq' = [rq EXCEPT ![r] = "send"]
  /\ UNCHANGED << connVars, hookVars, dialVars, readVars, chanVars, reqMtx, ranF,
                  ranExpire, cbPending, drained, atDrain, ret, kaVars, reconnectCh,
                  ctxDone, cpc, wpc, faults, cfgVars, dialURL, panicked >>

\* SendRaw, lines 598-600: refuse on a connection that is down.
SendRawCheck(r) ==
  /\ ~panicked /\ rq[r] = "send"
  /\ rq' = [rq EXCEPT ![r] = IF IsDown THEN "drop" ELSE "write"]
  /\ UNCHANGED << connVars, hookVars, dialVars, readVars, chanVars, regVars, rid, ret,
                  kaVars, reconnectCh, ctxDone, cpc, wpc, faults,
                  cfgVars, dialURL, panicked >>

\* SendRaw, lines 602-615: under wsMtx, the write on conn.ws, as one step
\* from Lock to Unlock. It fails on a closed socket and may fail on an open
\* one.
SendRawWrite(r) ==
  /\ ~panicked /\ rq[r] = "write" /\ wsMtx = NULL
  /\ IF ws = NULL
       THEN panicked' = TRUE /\ UNCHANGED << rq, ret >>
       ELSE /\ UNCHANGED panicked
            /\ \/ /\ ws \in open
                  /\ rq' = [rq EXCEPT ![r] = "done"]
                  /\ ret' = [ret EXCEPT ![r] = "nil"]
               \/ /\ rq' = [rq EXCEPT ![r] = "drop"]
                  /\ UNCHANGED ret
  /\ UNCHANGED << connVars, hookVars, dialVars, readVars, chanVars, regVars, rid,
                  kaVars, reconnectCh, ctxDone, cpc, wpc, faults,
                  cfgVars, dialURL >>

\* A SendRaw that goes on without waiting for wsMtx.
SendRawLockFree(r) ==
  /\ ~panicked /\ rq[r] = "write"
  /\ wsMtx' = r
  /\ lockOrder' = Append(lockOrder, r)
  /\ rq' = [rq EXCEPT ![r] = "locked"]
  /\ UNCHANGED << connVars, hookVars, dialVars, dialURL, kaVars, readVars, chanVars,
                  regVars, rid, ret, reconnectCh, ctxDone, cpc, wpc, faults,
                  disableAutoReconnect, urlV, rID, issued, rawHandler, msgType,
                  wire, rawSeen, arbVars, panicked >>

\* SendRaw, line 602, the same critical section step by step:
\* conn.wsMtx.Lock(). Install and WatcherClose wait while it is held; the
\* readers' snapshot of conn.ws reads what cannot change meanwhile.
SendRawLock(r) ==
  /\ ~panicked /\ rq[r] = "write" /\ wsMtx = NULL
  /\ wsMtx' = r
  /\ lockOrder' = Append(lockOrder, r)
  /\ rq' = [rq EXCEPT ![r] = "locked"]
  /\ UNCHANGED << connVars, hookVars, dialVars, dialURL, kaVars, readVars, chanVars,
                  regVars, rid, ret, reconnectCh, ctxDone, cpc, wpc, faults,
                  disableAutoReconnect, urlV, rID, issued, rawHandler, msgType,
                  wire, rawSeen, arbVars, panicked >>

\* SendRaw, lines 604-614: SetWriteDeadline and WriteMessage on conn.ws. The
\* frame reaches the socket, or the write fails: always on a closed socket,
\* possibly on an open one.
SendRawFrame(r) ==
  /\ ~panicked /\ rq[r] = "locked"
  /\ IF ws = NULL
       THEN panicked' = TRUE /\ UNCHANGED << rq, wire >>
       ELSE /\ UNCHANGED panicked
            /\ \/ /\ ws \in open
                  /\ wire' = Append(wire, << ws, r >>)
                  /\ rq' = [rq EXCEPT ![r] = "wrote"]
               \/ /\ rq' = [rq EXCEPT ![r] = "wfail"]
                  /\ UNCHANGED wire
  /\ UNCHANGED << connVars, hookVars, dialVars, dialURL, kaVars, readVars, chanVars,
                  regVars, rid, ret, reconnectCh, ctxDone, cpc, wpc, faults,
                  disableAutoReconnect, urlV, rID, issued, rawHandler, msgType,
                  wsMtx, lockOrder, rawSeen, arbVars >>

\* SendRaw, line 603 and the returns of lines 607, 613, 615: the deferred
\* Unlock, then nil or the error of the write.
SendRawUnlock(r) ==
  /\ ~panicked /\ rq[r] \in {"wrote", "wfail"}
  /\ wsMtx' = NULL
  /\ IF rq[r] = "wrote"
       THEN /\ rq' = [rq EXCEPT ![r] = "done"]
            /\ ret' = [ret EXCEPT ![r] = "nil"]
       ELSE /\ rq' = [rq EXCEPT ![r] = "drop"]
            /\ UNCHANGED ret
  /\ UNCHANGED << connVars, hookVars, dialVars, dialURL, kaVars, readVars, chanVars,
                  regVars, rid, reconnectCh, ctxDone, cpc, wpc, faults,
                  disableAutoReconnect, urlV, rID, issued, rawHandler, msgType,
                  wire, lockOrder, rawSeen, arbVars, panicked >>

\* RequestRawWithTimeout, lines 678-684, with respHandler: the send failed;
\* whatever entry the id has now is removed and its timer stopped, and the
\* error is returned.
DropHandler(r) ==
  /\ ~panicked /\ rq[r] = "drop" /\ reqMtx = "free"
  /\ LET e == respHandlers[rid[r]]
     IN IF e = NULL
          THEN UNCHANGED << respHandlers, timer >>
          ELSE /\ respHandlers' = [respHandlers EXCEPT ![rid[r]] = NULL]
               /\ timer' = StopTimer(timer, e)
  /\ rq' = [rq EXCEPT ![r] = "done"]
  /\ ret' = [ret EXCEPT ![r] = "err"]
  /\ UNCHANGED << connVars, hookVars, dialVars, readVars, chanVars, reqMtx, ranF,
                  ranExpire, cbPending, drained, atDrain, rid, kaVars, reconnectCh,
                  ctxDone, cpc, wpc, faults, cfgVars, dialURL, panicked >>

\* The expiry timer of registration r fires: doExpire is started.
TimerFire(r) ==
  /\ ~panicked /\ timer[r] = "armed"
  /\ timer' = [timer EXCEPT ![r] = "fired"]
  /\ UNCHANGED << connVars, hookVars, dialVars, readVars, chanVars, respHandlers,
                  reqMtx, ranF, ranExpire, cbPending, drained, atDrain, reqVars,
                  kaVars, reconnectCh, ctxDone, cpc, wpc, faults,
                  cfgVars, dialURL, panicked >>

\* logReq's doExpire, lines 700-707, with expire, lines 687-693: under
\* reqMtx the entry of the ID is deleted; if there was one, the expire
\* function of this registration runs.
DoExpire(r) ==
  /\ ~panicked /\ timer[r] = "fired" /\ reqMtx = "free"
  /\ LET removed == respHandlers[rid[r]] # NULL
     IN /\ respHandlers' = [respHandlers EXCEPT ![rid[r]] = NULL]
        /\ ranExpire' = [ranExpire EXCEPT ![r] = IF removed THEN @ + 1 ELSE @]
  /\ timer' = [timer EXCEPT ![r] = "done"]
  /\ UNCHANGED << connVars, hookVars, dialVars, readVars, chanVars, reqMtx, ranF,
                  cbPending, drained, atDrain, reqVars, kaVars, reconnectCh, ctxDone,
                  cpc, wpc, faults, cfgVars, dialURL, panicked >>

\* The messages RequestWithTimeout is called with: one of each type, and
\* a Request whose payload json.Marshal rejects.
MsgKinds == {"Request", "Response", "Notification", "Unmarshalable"}

\* A RequestWithTimeout that takes any message.
acceptedAny(kind) == TRUE

\* RequestWithTimeout, lines 657-664: the message is of type Request and
\* json.Marshal encodes it.
accepted(kind) == kind = "Request"

\* RequestWithTimeout, lines 656-671: the type check and the marshalling.
\* A message that fails either ends the call with its error; any other is
\* handed to RequestRawWithTimeout, whose first step is LogReq.
RequestWithTimeout(r) ==
  /\ ~panicked /\ rq[r] = "idle" /\ msgType[r] = "none"
  /\ \A q \in Reqs : q < r => rq[q] # "idle" \/ msgType[q] # "none"
  /\ \E kind \in MsgKinds :
       /\ msgType' = [msgType EXCEPT ![r] = kind]
       /\ IF accepted(kind)
            THEN UNCHANGED << rq, ret >>
            ELSE /\ rq' = [rq EXCEPT ![r] = "done"]
                 /\ ret' = [ret EXCEPT ![r] = "err"]
  /\ UNCHANGED << connVars, hookVars, dialVars, dialURL, kaVars, readVars, chanVars,
                  regVars, rid, reconnectCh, ctxDone, cpc, wpc, faults,
                  disableAutoReconnect, urlV, rID, issued, rawHandler, sendVars,
                  rawSeen, arbVars, panicked >>

\* ------------------------------------------------------ simple-arb bot

\* Every variable of the connection.
wsConnVars == << connVars, hookVars, dialVars, dialURL, kaVars, readVars, chanVars,
                 regVars, reqVars, reconnectCh, ctxDone, cpc, wpc, faults,
                 disableAutoReconnect, urlV, rID, issued, rawHandler, msgType,
                 sendVars, rawSeen, panicked >>

\* The arbs rebalance can find, and the statuses the updates report.
ArbsFound == {"none", "buyOnDEX", "sellOnDEX"}
OrderStatuses == {"Epoch", "Booked", "Executed"}
TradeStatuses == {"Incomplete", "Complete"}

\* An arbSequence as executeArb creates it: the DEX order and the CEX trade
\* are named by the sequence's number.
Arb(n, sell, epoch) ==
  [id |-> n, dexOrderFilled |-> FALSE, cexOrderFilled |-> FALSE,
   sellOnDEX |-> sell, startEpoch |-> epoch]

IdsOf(arbs) == [i \in 1..Len(arbs) |-> arbs[i].id]

RemoveAt(arbs, i) == SubSeq(arbs, 1, i - 1) \o SubSeq(arbs, i + 1, Len(arbs))

\* A DEX update handler that removes the arb once its DEX order is filled.
handleDEXOrderUpdateEager(arbs, id, status) ==
  IF status # "Executed" \/ \A i \in 1..Len(arbs) : arbs[i].id # id
    THEN arbs
    ELSE RemoveAt(arbs, CHOOSE i \in 1..Len(arbs) : arbs[i].id = id)

\* The bot's handler of DEX order updates: an order past booked marks the
\* DEX leg of its arb filled, and the arb is removed if the CEX leg is
\* filled too.
handleDEXOrderUpdate(arbs, id, status) ==
  IF status # "Executed" \/ \A i \in 1..Len(arbs) : arbs[i].id # id
    THEN arbs
    ELSE LET i == CHOOSE i \in 1..Len(arbs) : arbs[i].id = id
         IN IF arbs[i].cexOrderFilled
              THEN RemoveAt(arbs, i)
              ELSE [arbs EXCEPT ![i].dexOrderFilled = TRUE]

\* The bot's handler of CEX trade updates: a complete trade marks the CEX
\* leg of its arb filled, and the arb is removed if the DEX leg is filled
\* too.
handleCEXTradeUpdate(arbs, id, status) ==
  IF status # "Complete" \/ \A i \in 1..Len(arbs) : arbs[i].id # id
    THEN arbs
    ELSE LET i == CHOOSE i \in 1..Len(arbs) : arbs[i].id = id
         IN IF arbs[i].dexOrderFilled
              THEN RemoveAt(arbs, i)
              ELSE [arbs EXCEPT ![i].cexOrderFilled = TRUE]

\* An update of DEX order id arrives on the bot's order feed.
HandleDEXOrderUpdate(id, status) ==
  /\ activeArbs' = handleDEXOrderUpdate(activeArbs, id, status)
  /\ lastUpdate' = << "dex", id, status >>
  /\ UNCHANGED << currEpoch, arbsStarted, dexCancels, cexCancels, arbFound,
                  arbsBefore, execVars, wsConnVars >>

\* An update of CEX trade id arrives on the bot's trade feed.
HandleCEXTradeUpdate(id, status) ==
  /\ activeArbs' = handleCEXTradeUpdate(activeArbs, id, status)
  /\ lastUpdate' = << "cex", id, status >>
  /\ UNCHANGED << currEpoch, arbsStarted, dexCancels, cexCancels, arbFound,
                  arbsBefore, execVars, wsConnVars >>

\* rebalance: the arb started more than n epochs before epoch e.
expired(arb, e, n) == e - arb.startEpoch > n

\* A rebalance that cancels expired arbs only.
toCancelExpired(arb, e, found, n) == expired(arb, e, n)

\* rebalance: an arb is cancelled when it has expired or when an arb was
\* found in the opposite direction.
toCancel(arb, e, found, n) ==
  \/ expired(arb, e, n)
  \/ found # "none" /\ (found = "sellOnDEX") # arb.sellOnDEX

\* rebalance: the DEX orders and the CEX trades it cancels, in order.
dexCancelsOf(arbs, e, found, n) ==
  IdsOf(SelectSeq(arbs, LAMBDA a : toCancel(a, e, found, n) /\ ~a.dexOrderFilled))

cexCancelsOf(arbs, e, found, n) ==
  IdsOf(SelectSeq(arbs, LAMBDA a : toCancel(a, e, found, n) /\ ~a.cexOrderFilled))

\* arbExists: the lots of the arb, as many as the books make profitable and
\* the balances of both exchanges allow on the sides the arb needs.
lotsToArb(bookLots, dexMax, cexMax) ==
  LET maxLots == IF dexMax < cexMax THEN dexMax ELSE cexMax
  IN IF bookLots < maxLots THEN bookLots ELSE maxLots

\* arbExists: the arb rebalance finds, none when no lot can be arbed.
arbExists(books, lots) == IF lots > 0 THEN books ELSE "none"

\* executeArb: the bot already runs as many arbs as it may.
atMaxArbsNever(arbs, max) == FALSE

atMaxArbs(arbs, max) == Len(arbs) >= max

\* executeArb: the DEX order of the arb would match the open DEX order of
\* an active arb that goes the other way.
selfMatchNever(arbs, sell, crosses) == FALSE

selfMatch(arbs, sell, crosses) ==
  /\ crosses
  /\ \E i \in 1..Len(arbs) : arbs[i].sellOnDEX # sell /\ ~arbs[i].dexOrderFilled

\* executeArb: the lots of the CEX trade it places, none when the bot is
\* at its limit, the DEX order would match an own order, or the CEX fails
\* the trade.
cexTradeOf(arbs, max, found, lots, crosses, cexErr) ==
  IF \/ found = "none"
     \/ atMaxArbs(arbs, max)
     \/ selfMatch(arbs, found = "sellOnDEX", crosses)
     \/ cexErr
    THEN 0 ELSE lots

\* executeArb: the lots of the DEX order, placed once the CEX trade is.
dexOrderOfAnyway(placedOnCex, found, lots) == IF found = "none" THEN 0 ELSE lots

dexOrderOf(placedOnCex, found, lots) == placedOnCex

\* rebalance at the next epoch. The books and the balances decide whether
\* an arb is found and of how many lots; executeArb places its CEX trade
\* and then its DEX order unless the limit, a self-match or the CEX stop
\* it; then every active arb that is to be cancelled has its unfilled
\* orders cancelled and leaves the active arbs.
Rebalance ==
  /\ currEpoch < MaxEpoch
  /\ \E books \in ArbsFound, bookLots \in 1..MaxLots, dexMax, cexMax \in 0..MaxLots,
        crosses, cexErr \in BOOLEAN :
       /\ books # "none" => arbsStarted < MaxArbs
       /\ books = "none" => bookLots = 1 /\ dexMax = 0 /\ cexMax = 0
       /\ LET e == currEpoch + 1
              lots == lotsToArb(bookLots, dexMax, cexMax)
              found == arbExists(books, lots)
              onCex == cexTradeOf(activeArbs, MaxActiveArbs, found, lots, crosses, cexErr)
              onDex == dexOrderOf(onCex, found, lots)
              arbs == IF onDex > 0
                        THEN Append(activeArbs,
                                    Arb(arbsStarted + 1, found = "sellOnDEX", e))
                        ELSE activeArbs
          IN /\ crosses => \E i \in 1..Len(activeArbs) :
                             /\ found # "none"
                             /\ activeArbs[i].sellOnDEX # (found = "sellOnDEX")
                             /\ ~activeArbs[i].dexOrderFilled
             /\ cexErr => /\ found # "none" /\ ~crosses
                          /\ Len(activeArbs) < MaxActiveArbs
             /\ currEpoch' = e
             /\ arbsStarted' = IF onDex > 0 THEN arbsStarted + 1 ELSE arbsStarted
             /\ arbFound' = found
             /\ dexMaxQty' = dexMax
             /\ cexMaxQty' = cexMax
             /\ ratesCross' = crosses
             /\ cexTradeErr' = cexErr
             /\ cexTrade' = onCex
             /\ dexOrder' = onDex
             /\ arbsBefore' = arbs
             /\ dexCancels' = dexCancelsOf(arbs, e, found, NumEpochsLeaveOpen)
             /\ cexCancels' = cexCancelsOf(arbs, e, found, NumEpochsLeaveOpen)
             /\ activeArbs' = SelectSeq(arbs,
                  LAMBDA a : ~toCancel(a, e, found, NumEpochsLeaveOpen))
  /\ UNCHANGED << lastUpdate, wsConnVars >>

\* ---------------------------------------------------------- specification

\* Connect and the dial it makes.
Startup(mf, mr) ==
  \/ Connect \/ ConnectOk \/ ConnectHardFail \/ ConnectSoftFail
  \/ Dial(mf, mr) \/ Install \/ DialSwap \/ DialHook

\* Stop and what the cancellation sets off. The drain's iterations are
\* with the requests: without requests the registry is empty.
Shutdown ==
  \/ Stop \/ KaCtxDone
  \/ WatcherSwap \/ WatcherHook \/ WatcherClose \/ WatcherLock
  \/ WatcherCloseCh
  \/ \E s \in Readers : ReadCancelled(s)

\* Read errors and the keepalive loop's reconnects.
Reconnect(mr) ==
  \/ KaTrigger \/ KaConnectFail \/ KaConnectOk \/ TriggerTimerFire
  \/ \E s \in Readers :
       \/ ReadTypeError(s) \/ ReadError(s, mr)
       \/ ReaderSwap(s) \/ ReaderHook(s) \/ ReaderTrigger(s)

\* Requests, their timers, the peer's responses and the shutdown drain.
Requests ==
  \/ WatcherDrain
  \/ \E s \in Readers : ReadResponse(s) \/ ReaderDispatch(s)
  \/ \E r \in Reqs :
       \/ LogReq(r) \/ SendRawCheck(r) \/ SendRawWrite(r) \/ DropHandler(r)
       \/ TimerFire(r) \/ DoExpire(r) \/ Callback(r)

\* The peer's requests and notifications and their consumer.
Messages ==
  \/ \E s \in Readers : ReadNote(s) \/ ReaderPush(s)
  \/ Receive

\* The whole connection.
Next ==
  \/ Startup(MaxDialFails, MaxReadErrs) \/ Shutdown \/ Reconnect(MaxReadErrs)
  \/ Requests \/ Messages

Spec == Init /\ [][Next]_vars

\* The connection's life without traffic: dials, read errors, reconnects
\* and shutdown.
NextLife == Startup(MaxDialFails, MaxReadErrs) \/ Shutdown \/ Reconnect(MaxReadErrs)

SpecLife == Init /\ [][NextLife]_vars

\* The keepalive loop through enough failed dials to reach the cap.
NextBackoff == Startup(MaxDialFailsKA, MaxReadErrs) \/ Shutdown \/ Reconnect(MaxReadErrs)

SpecBackoff == Init /\ [][NextBackoff]_vars

\* The request registry over a connection that is started and shut down
\* on a network that injects no fault.
NextReq == Startup(0, 0) \/ Shutdown \/ Requests

SpecReq == Init /\ [][NextReq]_vars

\* The inbound channel over a connection with read errors and reconnects.
NextMsg == Startup(0, 1) \/ Shutdown \/ Reconnect(1) \/ Messages

SpecMsg == Init /\ [][NextMsg]_vars

\* One request and the peer's responses, requests and notifications over a
\* connection with read errors and reconnects.
NextInbound ==
  \/ Startup(0, 1) \/ Shutdown \/ Reconnect(1) \/ Messages
  \/ WatcherDrain
  \/ \E s \in Readers : ReadResponse(s) \/ ReaderDispatch(s)
  \/ LogReq(1) \/ SendRawCheck(1) \/ SendRawWrite(1) \/ DropHandler(1)
  \/ TimerFire(1) \/ DoExpire(1) \/ Callback(1)

SpecInbound == Init /\ [][NextInbound]_vars

\* The connection's life with the stored URL replaced at any time.
NextURL == NextLife \/ \E uri \in URLs : UpdateURL(uri)

SpecURL == Init /\ [][NextURL]_vars

\* The ID counter over a connection that is started and shut down.
NextCounter == Startup(0, 0) \/ Shutdown \/ NextID

SpecCounter == Init /\ [][NextCounter]_vars

\* Calls of RequestWithTimeout and RequestRawWithTimeout, their sends and
\* timers, over a connection that is started and shut down.
NextRequest ==
  \/ Startup(0, 0) \/ Shutdown \/ WatcherDrain
  \/ \E r \in Reqs :
       \/ RequestWithTimeout(r) \/ LogReq(r) \/ SendRawCheck(r) \/ SendRawWrite(r)
       \/ DropHandler(r) \/ TimerFire(r) \/ DoExpire(r)

SpecRequest == Init /\ [][NextRequest]_vars

\* Concurrent sends, with SendRaw's critical section step by step, over a
\* connection with read errors and reconnects.
NextSend ==
  \/ Startup(0, 1) \/ Shutdown \/ Reconnect(1) \/ WatcherDrain
  \/ \E r \in Reqs :
       \/ LogReq(r) \/ SendRawCheck(r) \/ SendRawLock(r) \/ SendRawFrame(r)
       \/ SendRawUnlock(r) \/ DropHandler(r)

SpecSend == Init /\ [][NextSend]_vars

\* A connection in structured or raw mode: the peer's frames, one request,
\* read errors and reconnects.
NextModes ==
  \/ NextInbound
  \/ \E s \in Readers : ReadRawFrame(s) \/ RawHandle(s)

SpecModes == InitModes /\ [][NextModes]_vars

\* The simple-arb bot: rebalances and the updates of its orders.
NextArb ==
  \/ Rebalance
  \/ \E id \in 1..MaxArbs :
       \/ \E status \in OrderStatuses : HandleDEXOrderUpdate(id, status)
       \/ \E status \in TradeStatuses : HandleCEXTradeUpdate(id, status)

SpecArb == Init /\ [][NextArb]_vars

\* The scheduling of SpecLife: every goroutine that can take its step
\* eventually does, every timer fires, every dial returns. Stop and the
\* network's read errors are not forced.
FairLife ==
  /\ WF_vars(Connect) /\ WF_vars(ConnectOk) /\ WF_vars(ConnectSoftFail)
  /\ WF_vars(ConnectHardFail)
  /\ WF_vars(Dial(MaxDialFails, MaxReadErrs)) /\ WF_vars(Install)
  /\ WF_vars(DialSwap) /\ WF_vars(DialHook)
  /\ WF_vars(KaTrigger) /\ WF_vars(KaCtxDone) /\ WF_vars(KaConnectFail)
  /\ WF_vars(KaConnectOk) /\ WF_vars(TriggerTimerFire)
  /\ \A s \in Readers :
       WF_vars(ReaderSwap(s)) /\ WF_vars(ReaderHook(s)) /\ WF_vars(ReaderTrigger(s))

SpecLifeFair == SpecLife /\ FairLife

\* ------------------------------------------------------------------ claims

Min(a, b) == IF a < b THEN a ELSE b

\* The goroutines that have swapped the status and not yet run the hook.
NPending ==
  (IF dpc = "hook" THEN 1 ELSE 0) + (IF wpc = "hook" THEN 1 ELSE 0)
    + Cardinality({s \in Readers : rpc[s] = "hook"})

\* The statuses those goroutines will pass to the hook.
PendingArgs ==
  (IF dpc = "hook" THEN {dstatus} ELSE {})
    \cup (IF wpc = "hook" \/ \E s \in Readers : rpc[s] = "hook"
            THEN {Disconnected} ELSE {})

\* What has run for registration r: its callback f and its expire/abort.
Outcomes(r) == ranF[r] + ranExpire[r]

\* Nothing can run for registration r any more: it has no entry, its timer
\* will not fire and no callback of it is pending.
Settled(r) ==
  /\ r \notin Registered /\ r \notin cbPending
  /\ timer[r] \in {"stopped", "done"}

\* C1 (as claimed): for every registration at most one of its callback and
\* its expire/abort function runs, and it runs at most once.
C1_AtMostOne == \A r \in Reqs : Outcomes(r) <= 1

\* C2 (as claimed): a registration whose call returned nil and for which
\* nothing can run any more has had exactly one of callback, expire, abort.
C2_ExactlyOne ==
  \A r \in Reqs : ret[r] = "nil" /\ Settled(r) => Outcomes(r) = 1

\* C3 (as claimed): for a call that returned an error neither the callback
\* nor the expire/abort function has run or is about to.
C3_ErrorMeansNone ==
  \A r \in Reqs : ret[r] = "err" => Outcomes(r) = 0 /\ r \notin cbPending

\* C4: once the watcher has drained, every registration that had an entry
\* when the drain began has no entry, its timer is not armed, and the drain
\* ran its abort exactly once; the drain aborts nothing else.
C4_Drain ==
  /\ \A r \in Reqs : drained[r] <= 1 /\ (drained[r] = 1 => r \in atDrain)
  /\ wpc = "done" =>
       \A r \in atDrain :
         r \notin Registered /\ timer[r] # "armed" /\ drained[r] = 1

\* C4 witness: the drain found two entries and has aborted both.
C4_Witness ==
  wpc = "done" /\ Cardinality(atDrain) = 2 /\ \A r \in atDrain : drained[r] = 1

\* C5: the inbound channel is closed at most once, only once the context
\* is cancelled, and, unless Connect failed hard, only by the watcher once
\* it has set the status and aborted every entry the drain found, with the
\* registry empty at the moment of the close.
C5_CloseOnce ==
  [][ /\ closeCount' <= 1 /\ (readChClosed' <=> closeCount' = 1)
      /\ readChClosed' => ctxDone'
      /\ readChClosed' /\ cpc' # "failed" =>
           wpc' = "done" /\ \A r \in atDrain' : drained'[r] = 1
      /\ readChClosed' /\ ~readChClosed /\ cpc' # "failed" =>
           wpc = "drain" /\ Registered' = {} ]_vars

\* C5 witness: the watcher has closed the channel after aborting an entry,
\* and a later registration is in the registry.
C5_Witness ==
  /\ readChClosed /\ wpc = "done" /\ closeCount = 1
  /\ atDrain # {} /\ Registered # {}

\* The goroutines the WaitGroup tracks.
WgCount ==
  Cardinality({s \in Readers : rpc[s] \notin {"none", "done"}})
    + (IF kpc \in {"select", "connect"} THEN 1 ELSE 0)
    + (IF wpc \notin {"none", "done"} THEN 1 ELSE 0)
    + Cardinality(cbPending)

\* C6 (as claimed): after Connect returned a WaitGroup and the context was
\* cancelled, the tracked goroutines have ended or the connection can
\* still take a step towards it.
C6_Terminates ==
  cpc = "returned" /\ ctxDone => (WgCount = 0 /\ readChClosed) \/ ENABLED NextMsg

\* C7: ConnectEventFunc is owed exactly by the swaps that change the status
\* cell (a swap to the current value owes none), every hook owed is held by
\* one goroutine that swapped, and each invocation passes the status that
\* goroutine stored, also when several goroutines set the status at once.
C7_HookOnChange ==
  [][ /\ (connectionStatus' # connectionStatus) <=> (owed' = owed + 1)
      /\ (owed' = owed - 1) => (lastHook' \in PendingArgs)
      /\ owed' = NPending' ]_vars

\* C7 witness: two goroutines have each changed the status and both still
\* owe their hook.
C7_Witness == owed = 2

\* C8 (as claimed): whenever no setConnectionStatus call is between its swap
\* and its hook, the last status passed to ConnectEventFunc is the current
\* status.
C8_HookOrder == (owed = 0) => (lastHook = connectionStatus)

\* C9: after the k-th consecutive failed reconnect the delay scheduled is
\* min(5k, 60) seconds, never more than 60, and the interval kept for the
\* next failure is min(5(k+1), 60), which is 5 after a success (k = 0).
C9_Backoff ==
  /\ lastDelay <= maxReconnectInterval
  /\ fails > 0 => lastDelay = Min(reconnectInterval * fails, maxReconnectInterval)
  /\ rcInt = Min(reconnectInterval * (fails + 1), maxReconnectInterval)

\* C9 witness: thirteen failures in a row, the last one scheduled at the cap.
C9_Witness == fails = 13 /\ lastDelay = maxReconnectInterval /\ rcInt = maxReconnectInterval

\* A read loop is in handleReadError with auto-reconnect enabled.
InReadError ==
  ~disableAutoReconnect /\ \E s \in Readers : rpc[s] \in {"swap", "hook", "trigger"}

\* The status is Connected and a read loop is reading.
Reconnected ==
  connectionStatus = Connected /\ \E s \in Readers : rpc[s] = "read"

\* C10: with auto-reconnect enabled, a read loop that has set the status in
\* handleReadError leaves it Disconnected until its trigger is sent; unless
\* the context is cancelled the status then returns to Connected with a
\* read loop running; and ReconnectSync has run once for each successful
\* keepAlive dial whenever keepAlive is not inside a reconnect (never for a
\* failed attempt, never for Connect's own dial).
C10_Reconnect ==
  /\ [](\A s \in Readers :
          rpc[s] \in {"hook", "trigger"} /\ ~ctxDone => connectionStatus = Disconnected)
  /\ [](syncRuns <= reconnects /\ reconnects <= syncRuns + 1)
  /\ [](kpc # "connect" => syncRuns = reconnects)
  /\ [](cpc # "returned" => syncRuns = 0)
  /\ (InReadError /\ ~ctxDone) ~> (Reconnected \/ ctxDone)

\* C10 witness: after a read error keepAlive has redialled, ReconnectSync
\* has run once, and the second read loop is reading on a Connected status.
C10_Witness ==
  /\ ~ctxDone /\ rerrs = 1 /\ reconnects = 1 /\ syncRuns = 1
  /\ connectionStatus = Connected /\ rpc[2] = "read" /\ rpc[1] = "done"

\* C11: a Connect whose dial fails with a certificate error, or with any
\* error while auto-reconnect is disabled, fails hard; after a hard failure
\* the context is cancelled, the inbound channel is closed, no reader,
\* keepalive loop or watcher exists, no trigger is scheduled, no dial is in
\* progress or was made by anyone but Connect, and after a certificate
\* error the status is InvalidCert.
C11_HardFailure ==
  /\ [](cpc = "failed" =>
          /\ ctxDone /\ readChClosed
          /\ kpc = "none" /\ wpc = "none" /\ nreaders = 0
          /\ trigTimers = 0 /\ reconnectCh = 0
          /\ dpc = "idle" /\ dcaller = "Connect"
          /\ (derr = "cert" => connectionStatus = InvalidCert))
  /\ [][ /\ cpc = "connect" /\ cpc' # "connect"
         /\ derr # "none" /\ (disableAutoReconnect \/ derr = "cert")
         => cpc' = "failed" ]_vars

\* C11 witness: Connect failed hard on a certificate error with
\* auto-reconnect enabled, and the hook has been told.
C11_Witness ==
  /\ cpc = "failed" /\ derr = "cert" /\ ~disableAutoReconnect
  /\ connectionStatus = InvalidCert /\ lastHook = InvalidCert /\ readChClosed

\* Connect returned after a soft failure and keepAlive has not dialled yet.
SoftFailed == cpc = "returned" /\ dcaller = "Connect" /\ derr # "none"

\* C12: a Connect whose dial fails with another error while auto-reconnect
\* is enabled returns the WaitGroup with the status Disconnected, the
\* keepalive loop and the watcher started and one trigger scheduled; from
\* there keepAlive eventually dials unless the context is cancelled.
C12_SoftFailure ==
  /\ [][ /\ cpc = "connect" /\ cpc' # "connect"
         /\ derr # "none" /\ ~disableAutoReconnect /\ derr # "cert"
         => /\ cpc' = "returned" /\ connectionStatus' = Disconnected
            /\ kpc' = "select" /\ wpc' = "wait"
            /\ trigTimers' = trigTimers + 1 ]_vars
  /\ (SoftFailed ~> (dcaller = "keepAlive" \/ ctxDone))

\* C12 witness: after the soft failure the scheduled trigger has fired and
\* keepAlive is dialling.
C12_Witness ==
  /\ cpc = "returned" /\ kpc = "connect" /\ dpc = "dial" /\ nreaders = 0
  /\ fails = 0 /\ ~ctxDone /\ trigTimers = 0

C14_ResponseID ==
  [][ \A r \in Reqs :
        r \in cbPending' /\ r \notin cbPending =>
          \E s \in Readers :
            rpc[s] = "resp" /\ rpc'[s] = "read" /\ rmsg[s] = rid[r] ]_vars

\* C14 witness: two registrations under different IDs have both had their
\* callback run.
C14_Witness == ranF[1] = 1 /\ ranF[2] = 1 /\ rid[1] # rid[2]

\* C15: a reader that dispatches a response whose ID has no entry spawns
\* no callback, puts nothing on the inbound channel, leaves the status and
\* goes back to reading; a registration whose expire has run never has a
\* callback spawned.
C15_NoHandler ==
  [][ /\ \A s \in Readers :
           rpc[s] = "resp" /\ rpc'[s] # "resp" /\ respHandlers[rmsg[s]] = NULL
             => /\ rpc'[s] = "read" /\ ~panicked'
                /\ UNCHANGED << cbPending, ranF, readCh, connectionStatus >>
      /\ \A r \in Reqs :
           ranExpire[r] > 0 => ~(r \in cbPending' /\ r \notin cbPending) ]_vars

\* C15 witness: the request has expired, its expire has run, and a reader
\* holds a response with its ID, for which the registry has no entry.
C15_Witness ==
  /\ ranExpire[1] = 1 /\ timer[1] = "done" /\ ret[1] = "nil"
  /\ \E s \in Readers :
       rpc[s] = "resp" /\ rmsg[s] = rid[1] /\ respHandlers[rmsg[s]] = NULL

\* The non-response messages read and not yet received by the consumer:
\* those in the inbound channel, then the one a reader is about to push.
Undelivered ==
  readCh \o (IF \E s \in Readers : rpc[s] = "push"
               THEN << rmsg[CHOOSE s \in Readers : rpc[s] = "push"] >>
               ELSE << >>)

C19_NoAutoReconnect ==
  /\ [](disableAutoReconnect =>
          /\ kpc = "none" /\ reconnectCh = 0 /\ trigTimers = 0
          /\ dcaller # "keepAlive" /\ nreaders <= 1 /\ reconnects = 0)
  /\ [][ disableAutoReconnect =>
           /\ \A s \in Readers :
                rpc[s] = "swap" /\ rpc'[s] # "swap" =>
                  connectionStatus' = Disconnected /\ rpc'[s] \in {"hook", "done"}
           /\ \A s \in Readers :
                rpc[s] = "hook" /\ rpc'[s] # "hook" => rpc'[s] = "done"
           /\ cpc = "returned" /\ connectionStatus # Connected
                => connectionStatus' # Connected ]_vars

\* C19 witness: with auto-reconnect disabled a read error has ended the
\* only reader, the status is Disconnected and the hook has been told,
\* with the context not cancelled.
C19_Witness ==
  /\ disableAutoReconnect /\ cpc = "returned" /\ ~ctxDone
  /\ rerrs = 1 /\ rpc[1] = "done"
  /\ connectionStatus = Disconnected /\ lastHook = Disconnected /\ owed = 0

\* C20 (as claimed): connect sets the status by the outcome of the dial:
\* InvalidCert for a certificate error, returned as ErrCertRequired
\* without a configured certificate and as ErrInvalidCert with one,
\* Disconnected for any other error, Connected for none; when connect
\* returns an error that is not a certificate error the status is
\* Disconnected.
C20_Classify ==
  [][ /\ dpc = "swap" /\ dpc' # "swap" =>
           /\ connectionStatus' = dstatus
           /\ (derr = "cert" <=> dstatus = InvalidCert)
           /\ (derr = "fail" <=> dstatus = Disconnected)
           /\ (derr = "none" <=> dstatus = Connected)
           /\ derr = "cert" =>
                /\ connectErr(derr, 0) = "ErrCertRequired"
                /\ connectErr(derr, 1) = "ErrInvalidCert"
      /\ dpc # "ret" /\ dpc' = "ret" /\ derr' = "fail" =>
           connectErr(derr', 0) = "fail" /\ connectionStatus' = Disconnected ]_vars

\* C17: a change of the stored URL sends no trigger, schedules none,
\* closes or installs no socket, starts no dial and leaves the status; a
\* dial that starts targets the URL stored at that moment, and keeps its
\* target while it is in progress.
C17_UpdateURL ==
  [][ /\ urlV' # urlV =>
           UNCHANGED << reconnectCh, trigTimers, ws, open, connectionStatus,
                        dpc, kpc, dialURL >>
      /\ dpc # "dial" /\ dpc' = "dial" => dialURL' = urlV
      /\ dpc = "dial" /\ dpc' = "dial" => dialURL' = dialURL ]_vars

\* C17 witness: the first dial went to the configured URL; after
\* UpdateURL and a read error keepAlive dials the new URL.
C17_Witness ==
  /\ kpc = "connect" /\ dpc = "dial" /\ reconnects = 0 /\ nsock = 1
  /\ urlV = 2 /\ dialURL = 2

\* C18: the i-th value NextID returns is i modulo the counter's range: the
\* first is 1, each is the previous plus one, and no two of fewer than a
\* full range of consecutive calls are equal.
C18_NextID ==
  /\ \A i \in 1..Len(issued) : issued[i] = i % IDMod
  /\ \A i, j \in 1..Len(issued) :
       i < j /\ j - i < IDMod => issued[i] # issued[j]
  /\ \A i \in 1..Len(issued) : i < IDMod => issued[i] = i
  /\ rID = Len(issued) % IDMod

\* C18 witness: the counter has wrapped: NextID has returned 0 and then 1
\* for the second time.
C18_Witness ==
  /\ Len(issued) = IDMod + 1
  /\ issued[1] = 1 /\ issued[IDMod] = 0 /\ issued[IDMod + 1] = 1

\* C21: a RequestWithTimeout given a message that is not of type Request,
\* or one that cannot be marshalled, returns its error in that step and
\* leaves the registry, the timers, the locks, the socket and the status as
\* they were; such a call never has an ID, an entry or a timer, and never
\* reaches a write.
C21_Rejected ==
  /\ [](\A r \in Reqs :
          msgType[r] \notin {"none", "Request"} =>
            /\ rq[r] = "done" /\ ret[r] = "err"
            /\ rid[r] = NULL /\ timer[r] = "none" /\ r \notin Registered)
  /\ [][ \A r \in Reqs :
           msgType[r] = "none" /\ msgType'[r] \notin {"none", "Request"} =>
             /\ rq'[r] = "done" /\ ret'[r] = "err"
             /\ UNCHANGED << respHandlers, timer, reqMtx, wsMtx, ws, open,
                             connectionStatus, cbPending >> ]_vars

\* C21 witness: on a Connected connection the first call, with a Request,
\* is registered, and the second, with a Request that cannot be
\* marshalled, has returned its error.
C21_Witness ==
  /\ connectionStatus = Connected
  /\ msgType[1] = "Request" /\ 1 \in Registered /\ timer[1] = "armed"
  /\ msgType[2] = "Unmarshalable" /\ rq[2] = "done" /\ ret[2] = "err"

\* The goroutines and timers that are about to send on reconnectCh.
Senders == trigTimers + Cardinality({s \in Readers : rpc[s] = "trigger"})

\* C22: whenever a reader's error handler or a timer is about to send on
\* reconnectCh the channel is empty, and there is one such sender at most:
\* no send blocks, before or after the keepalive loop has exited.
C22_NeverBlocks ==
  /\ reconnectCh <= 1
  /\ Senders > 0 => reconnectCh = 0 /\ Senders = 1

\* C22 witness: the keepalive loop has exited on cancellation with a retry
\* timer armed, and the timer's send has gone into the empty channel.
C22_Witness ==
  /\ ctxDone /\ kpc = "done" /\ reconnectCh = 1 /\ trigTimers = 0 /\ fails = 1

\* C23: once the context is cancelled the keepalive loop starts no dial,
\* whether or not a trigger is buffered or a timer is still to send one (a
\* dial that starts then is Connect's own), and a loop that takes a trigger
\* then exits; under fair scheduling the loop, if it was started, ends.
C23_CancelFirst ==
  /\ [][ ctxDone /\ dpc # "dial" /\ dpc' = "dial" =>
           dcaller' = "Connect" /\ kpc' = kpc ]_vars
  /\ [][ ctxDone /\ kpc = "select" /\ kpc' # "select" => kpc' = "done" ]_vars
  /\ [][ kpc = "done" => kpc' = "done" ]_vars
  /\ (ctxDone /\ kpc # "none") ~> (kpc = "done")

\* C23 witness: after a failed keepAlive dial the context was cancelled,
\* the retry timer sent its trigger, and the loop took the trigger and
\* exited without dialling.
C23_Witness ==
  /\ ctxDone /\ kpc = "done" /\ fails = 1 /\ trigTimers = 0 /\ reconnectCh = 0
  /\ dpc = "idle"

\* C24: a reader whose read returns once the context is cancelled ends in
\* that step: the status, the hook, the trigger channel, the registry, the
\* pending callbacks, the inbound channel and the frames passed to
\* RawHandler stay as they were.
C24_SilentExit ==
  [][ \A s \in Readers :
        rpc[s] = "read" /\ ctxDone /\ rpc'[s] # "read" =>
          /\ rpc'[s] = "done"
          /\ UNCHANGED << connectionStatus, owed, lastHook, reconnectCh,
                          trigTimers, respHandlers, cbPending, ranF, readCh,
                          rawSeen, panicked >> ]_vars

\* C24 witness: the context is cancelled with a request registered; the
\* reader has ended before the watcher acted, the status still Connected,
\* no trigger sent and nothing dispatched.
C24_Witness ==
  /\ ctxDone /\ rpc[1] = "done" /\ rerrs = 0 /\ wpc = "wait"
  /\ connectionStatus = Connected /\ reconnectCh = 0
  /\ 1 \in Registered /\ ranF[1] = 0 /\ cbPending = {}

\* C25: a reader enters its error handling only by a read error that is
\* not a type error (the socket is closed, or the network failed the read);
\* from there it sets the status to Disconnected, runs the hook if the
\* status changed, sends one trigger unless auto-reconnect is disabled, and
\* ends; a reader that has ended stays so.
C25_ReadErrors ==
  [][ \A s \in Readers :
        /\ rpc[s] = "read" /\ rpc'[s] = "swap" =>
             ~ctxDone /\ (rsock[s] \notin open \/ rerrs' = rerrs + 1)
        /\ rpc[s] = "swap" /\ rpc'[s] # "swap" =>
             /\ connectionStatus' = Disconnected
             /\ rpc'[s] = IF connectionStatus # Disconnected THEN "hook"
                          ELSE IF disableAutoReconnect THEN "done" ELSE "trigger"
        /\ rpc[s] = "hook" /\ rpc'[s] # "hook" =>
             /\ lastHook' = Disconnected
             /\ rpc'[s] = IF disableAutoReconnect THEN "done" ELSE "trigger"
        /\ rpc[s] = "trigger" /\ rpc'[s] # "trigger" =>
             rpc'[s] = "done" /\ reconnectCh' = reconnectCh + 1
        /\ rpc[s] = "done" => rpc'[s] = "done" ]_vars

\* C25 witness: with auto-reconnect enabled a read error on the open
\* socket has ended the first reader: the status is Disconnected, the hook
\* has been told and the trigger is in the channel.
C25_Witness ==
  /\ ~disableAutoReconnect /\ ~ctxDone /\ rerrs = 1 /\ rpc[1] = "done"
  /\ 1 \in open /\ connectionStatus = Disconnected /\ lastHook = Disconnected
  /\ reconnectCh = 1

\* The number of sockets connect has installed so far.
Installed == IF dpc = "install" THEN nsock - 1 ELSE nsock

\* The last reader has handled a read error and no socket has been
\* installed since.
BetweenAttempts ==
  /\ nreaders > 0 /\ ~ctxDone
  /\ rpc[nreaders] \in {"hook", "trigger", "done"}
  /\ ~(dpc \in {"swap", "hook"} /\ derr = "none")

\* C26 (as claimed): the socket reference is null before the first
\* successful dial and between connection attempts.
C26_NullBetween ==
  /\ Installed = 0 => ws = NULL
  /\ BetweenAttempts => ws = NULL

\* C26 (amended): the socket reference is null exactly until the first
\* socket is installed; from then on it is the last socket installed,
\* between attempts too, and it changes only when connect, under wsMtx,
\* closes the socket it refers to and installs the one just dialled.
C26_SocketRef ==
  /\ [](ws = NULL <=> Installed = 0)
  /\ [](ws # NULL => ws = Installed)
  /\ [][ ws' # ws =>
           /\ dpc = "install" /\ ws' = dsock /\ ws' \in open'
           /\ ws # NULL => ws \notin open' ]_vars

\* C26 witness: after a read error keepAlive is dialling again, and the
\* reference still holds the first socket.
C26_Witness ==
  /\ BetweenAttempts /\ rerrs = 1 /\ connectionStatus = Disconnected
  /\ kpc = "connect" /\ dpc = "dial" /\ ws = 1

\* The requests whose SendRaw is between Lock and Unlock.
Writing == {r \in Reqs : rq[r] \in {"locked", "wrote", "wfail"}}

\* The place of request r in the order wsMtx was taken.
LockPos(r) == CHOOSE k \in 1..Len(lockOrder) : lockOrder[k] = r

\* C27: at most one SendRaw is between Lock and Unlock, and it holds wsMtx;
\* while one is, the installed socket is neither swapped nor closed; every
\* frame on the wire was written by a caller that had taken wsMtx, on the
\* socket installed then, and the frames are in the order wsMtx was taken.
C27_Serialized ==
  /\ [](Cardinality(Writing) <= 1)
  /\ [](\A r \in Reqs : r \in Writing <=> wsMtx = r)
  /\ [][ wsMtx # NULL => ws' = ws /\ (ws \in open => ws \in open') ]_vars
  /\ [](\A i \in 1..Len(wire) :
          /\ \E k \in 1..Len(lockOrder) : lockOrder[k] = wire[i][2]
          /\ \A j \in 1..Len(wire) :
               i < j => /\ LockPos(wire[i][2]) < LockPos(wire[j][2])
                        /\ wire[i][1] <= wire[j][1])

\* C27 witness: the first caller has written its frame and still holds
\* wsMtx, while the second caller and the dialer, with a new socket after a
\* read error, both wait for it.
C27_Witness ==
  /\ wsMtx = 1 /\ rq[1] = "wrote" /\ wire = << << 1, 1 >> >>
  /\ rq[2] = "write" /\ dpc = "install" /\ ws = 1

\* The frames read in raw mode: those passed to RawHandler, then the one a
\* reader is about to pass.
RawRead ==
  rawSeen \o (IF \E s \in Readers : rpc[s] = "raw"
                THEN << rmsg[CHOOSE s \in Readers : rpc[s] = "raw"] >>
                ELSE << >>)

\* C28: in raw mode the frames read are exactly the frames the peer sent,
\* each passed to RawHandler once and in the order sent; the inbound
\* channel stays empty and no response callback is spawned or run; a
\* registration that has lost its entry has had its expire or abort run or
\* its send has failed, and one whose call returned nil ends by its expire
\* or abort.
C28_RawMode ==
  rawHandler =>
    /\ readCh = << >> /\ cbPending = {} /\ \A r \in Reqs : ranF[r] = 0
    /\ \A s \in Readers : rpc[s] \notin {"push", "resp"}
    /\ Cardinality({s \in Readers : rpc[s] = "raw"}) <= 1
    /\ RawRead = [i \in 1..nmsg |-> i]
    /\ \A r \in Reqs :
         /\ rid[r] # NULL /\ r \notin Registered =>
              ranExpire[r] = 1 \/ (rq[r] = "done" /\ ret[r] = "err")
         /\ Settled(r) /\ ret[r] = "nil" => ranExpire[r] = 1

\* C28 witness: two frames have been passed to RawHandler in order, the
\* second after a reconnect, and the request, sent without error, has
\* ended by its expiry.
C28_Witness ==
  /\ rawHandler /\ rawSeen = << 1, 2 >> /\ reconnects = 1 /\ ~ctxDone
  /\ ret[1] = "nil" /\ timer[1] = "done" /\ ranExpire[1] = 1 /\ drained[1] = 0

\* An arb sequence of the tests' tables: its number, its filled flags and
\* its start epoch; the tests' arbs all buy on the DEX.
TestArb(n, dexFilled, cexFilled, epoch) ==
  [id |-> n, dexOrderFilled |-> dexFilled, cexOrderFilled |-> cexFilled,
   sellOnDEX |-> FALSE, startEpoch |-> epoch]

\* TestArbDexTradeUpdates: "dex order still booked", "dex order executed,
\* but cex not yet filled", "dex order executed, but cex already filled".
DexTradeUpdateTests ==
  /\ handleDEXOrderUpdate(<< TestArb(1, FALSE, FALSE, 0) >>, 1, "Booked")
       = << TestArb(1, FALSE, FALSE, 0) >>
  /\ handleDEXOrderUpdate(<< TestArb(1, FALSE, FALSE, 0) >>, 1, "Executed")
       = << TestArb(1, TRUE, FALSE, 0) >>
  /\ handleDEXOrderUpdate(<< TestArb(1, FALSE, TRUE, 0) >>, 1, "Executed") = << >>

\* TestCexTradeUpdates: "neither complete", "cex complete, but dex order
\* not complete", "both complete".
CexTradeUpdateTests ==
  /\ handleCEXTradeUpdate(<< TestArb(1, FALSE, FALSE, 0) >>, 1, "Incomplete")
       = << TestArb(1, FALSE, FALSE, 0) >>
  /\ handleCEXTradeUpdate(<< TestArb(1, FALSE, FALSE, 0) >>, 1, "Complete")
       = << TestArb(1, FALSE, TRUE, 0) >>
  /\ handleCEXTradeUpdate(<< TestArb(1, TRUE, FALSE, 0) >>, 1, "Complete") = << >>

\* The update reports its order filled.
ReportsFilled(u) ==
  \/ u[1] = "dex" /\ u[3] = "Executed"
  \/ u[1] = "cex" /\ u[3] = "Complete"

\* The leg of arb a the update is not about is filled.
OtherLegFilled(a, u) ==
  IF u[1] = "dex" THEN a.cexOrderFilled ELSE a.dexOrderFilled

\* Arb a with the leg the update is about filled.
WithLegFilled(a, u) ==
  IF u[1] = "dex" THEN [a EXCEPT !.dexOrderFilled = TRUE]
                  ELSE [a EXCEPT !.cexOrderFilled = TRUE]

\* C29: an update that reports an order filled removes the order's arb if
\* the arb's other leg is filled already, whichever leg came first, and
\* otherwise keeps the arb with that leg's flag set and the other as it
\* was; any other update, and any update for the other arbs, changes
\* nothing; an update adds no arb, and no active arb has both legs filled.
\* The handlers give what the tests of the DEX and CEX updates expect.
C29_TradeUpdates ==
  /\ [](DexTradeUpdateTests /\ CexTradeUpdateTests)
  /\ [](\A i \in 1..Len(activeArbs) :
          ~(activeArbs[i].dexOrderFilled /\ activeArbs[i].cexOrderFilled))
  /\ [][ currEpoch' = currEpoch /\ lastUpdate'[1] # "none" =>
           LET u == lastUpdate'
           IN /\ \A i \in 1..Len(activeArbs) :
                   LET a == activeArbs[i]
                   IN IF a.id = u[2] /\ ReportsFilled(u)
                        THEN IF OtherLegFilled(a, u)
                               THEN \A j \in 1..Len(activeArbs') :
                                      activeArbs'[j].id # a.id
                               ELSE \E j \in 1..Len(activeArbs') :
                                      activeArbs'[j] = WithLegFilled(a, u)
                        ELSE \E j \in 1..Len(activeArbs') : activeArbs'[j] = a
              /\ \A j \in 1..Len(activeArbs') :
                   \E i \in 1..Len(activeArbs) :
                     activeArbs'[j].id = activeArbs[i].id ]_vars

\* C29 witness: in the epoch it was started the only arb had its CEX trade
\* reported complete and then its DEX order executed, and is gone.
C29_Witness ==
  /\ currEpoch = 1 /\ arbsStarted = 1 /\ activeArbs = << >>
  /\ lastUpdate = << "dex", 1, "Executed" >>

\* TestArbRebalance at epoch 100 with NumEpochsLeaveOpen 10: "self-match",
\* "remove expired active arbs", "already max active arbs".
RebalanceCancelTests ==
  /\ LET arbs == << TestArb(1, FALSE, FALSE, 98) >>
     IN /\ cexCancelsOf(arbs, 100, "sellOnDEX", 10) = << 1 >>
        /\ dexCancelsOf(arbs, 100, "sellOnDEX", 10) = << 1 >>
  /\ LET arbs == << TestArb(1, FALSE, FALSE, 98), TestArb(2, FALSE, FALSE, 88),
                    TestArb(3, FALSE, TRUE, 88), TestArb(4, TRUE, FALSE, 88) >>
     IN /\ cexCancelsOf(arbs, 100, "none", 10) = << 2, 4 >>
        /\ dexCancelsOf(arbs, 100, "none", 10) = << 2, 3 >>
  /\ LET arbs == << TestArb(1, FALSE, FALSE, 99), TestArb(2, FALSE, FALSE, 98),
                    TestArb(3, FALSE, FALSE, 97), TestArb(4, FALSE, FALSE, 96),
                    TestArb(5, FALSE, FALSE, 95) >>
     IN /\ cexCancelsOf(arbs, 100, "buyOnDEX", 10) = << >>
        /\ dexCancelsOf(arbs, 100, "buyOnDEX", 10) = << >>

\* The place of the arb numbered id among the arbs.
ArbPos(arbs, id) == CHOOSE k \in 1..Len(arbs) : arbs[k].id = id

\* The orders in cancels are orders of the arbs, once each, in the order of
\* the arbs.
InArbOrder(cancels, arbs) ==
  /\ \A i \in 1..Len(cancels) : \E k \in 1..Len(arbs) : arbs[k].id = cancels[i]
  /\ \A i, j \in 1..Len(cancels) :
       i < j => ArbPos(arbs, cancels[i]) < ArbPos(arbs, cancels[j])

\* The last rebalance cancelled the DEX order, the CEX trade, of the arb.
DexCancelled(a) == \E i \in 1..Len(dexCancels) : dexCancels[i] = a.id
CexCancelled(a) == \E i \in 1..Len(cexCancels) : cexCancels[i] = a.id

\* C30 (as claimed): the rebalance at epoch E cancels the DEX order of an
\* active arb exactly when the arb started more than NumEpochsLeaveOpen
\* epochs before E and its DEX leg is not filled, and its CEX trade exactly
\* when it started that long before and its CEX leg is not filled; cancels
\* are in the order of the active arbs.
C30_ExpiredOnly ==
  /\ InArbOrder(dexCancels, arbsBefore) /\ InArbOrder(cexCancels, arbsBefore)
  /\ \A i \in 1..Len(arbsBefore) :
       LET a == arbsBefore[i]
           old == currEpoch - a.startEpoch > NumEpochsLeaveOpen
       IN /\ DexCancelled(a) <=> old /\ ~a.dexOrderFilled
          /\ CexCancelled(a) <=> old /\ ~a.cexOrderFilled

\* C30 (amended): the rebalance at epoch E cancels the orders of the active
\* arbs that started more than NumEpochsLeaveOpen epochs before E and of
\* those that go the opposite way to an arb it has just found: of each the
\* DEX order exactly when the DEX leg is not filled and the CEX trade
\* exactly when the CEX leg is not filled; no other arb is cancelled, the
\* cancels are in the order of the active arbs, and the cancelled arbs
\* leave the active arbs. The cancels are those the tests of rebalance
\* expect.
C30_Cancels ==
  /\ [](RebalanceCancelTests)
  /\ [](InArbOrder(dexCancels, arbsBefore) /\ InArbOrder(cexCancels, arbsBefore))
  /\ [](\A i \in 1..Len(arbsBefore) :
          LET a == arbsBefore[i]
              old == currEpoch - a.startEpoch > NumEpochsLeaveOpen
              opposite == arbFound # "none" /\ (arbFound = "sellOnDEX") # a.sellOnDEX
          IN /\ DexCancelled(a) <=> (old \/ opposite) /\ ~a.dexOrderFilled
             /\ CexCancelled(a) <=> (old \/ opposite) /\ ~a.cexOrderFilled)
  /\ [][ currEpoch' # currEpoch =>
           \A i \in 1..Len(arbsBefore') :
             LET a == arbsBefore'[i]
                 old == currEpoch' - a.startEpoch > NumEpochsLeaveOpen
                 opposite == arbFound' # "none" /\ (arbFound' = "sellOnDEX") # a.sellOnDEX
             IN (old \/ opposite) <=>
                  \A j \in 1..Len(activeArbs') : activeArbs'[j].id # a.id ]_vars

\* C30 witness: the rebalance at epoch 3 found no arb and an expired arb
\* whose DEX leg was filled: it cancelled that arb's CEX trade and no DEX
\* order.
C30_Witness ==
  /\ currEpoch = 3 /\ arbFound = "none"
  /\ Len(arbsBefore) = 1 /\ arbsBefore[1].dexOrderFilled
  /\ ~arbsBefore[1].cexOrderFilled
  /\ cexCancels = << 1 >> /\ dexCancels = << >> /\ activeArbs = << >>

\* TestArbRebalance with MaxActiveArbs 5: the DEX order and the CEX trade, in
\* lots, that rebalance places given the active arbs, the arb and the lots
\* the books show, the DEX and CEX balances, crossing rates and a failing CEX.
TradesOf(arbs, books, bookLots, dexMax, cexMax, crosses, cexErr) ==
  LET lots == lotsToArb(bookLots, dexMax, cexMax)
      found == arbExists(books, lots)
      onCex == cexTradeOf(arbs, 5, found, lots, crosses, cexErr)
  IN << dexOrderOf(onCex, found, lots), onCex >>

\* "no arb", "1 lot, buy on dex, sell on cex", "1 lot, sell on dex, buy on
\* cex", "... but cex balance not enough", "2 lot ... dex quote balance only
\* enough for 1", "2 lot ... cex quote balance only enough for 1".
RebalanceTradeTests ==
  /\ TradesOf(<< >>, "none", 1, 0, 0, FALSE, FALSE) = << 0, 0 >>
  /\ TradesOf(<< >>, "buyOnDEX", 1, 5, 5, FALSE, FALSE) = << 1, 1 >>
  /\ TradesOf(<< >>, "sellOnDEX", 1, 5, 5, FALSE, FALSE) = << 1, 1 >>
  /\ TradesOf(<< >>, "buyOnDEX", 1, 5, 0, FALSE, FALSE) = << 0, 0 >>
  /\ TradesOf(<< >>, "buyOnDEX", 2, 1, 5, FALSE, FALSE) = << 1, 1 >>
  /\ TradesOf(<< >>, "sellOnDEX", 2, 5, 1, FALSE, FALSE) = << 1, 1 >>

\* "already max active arbs": five arbs that buy on the DEX, and books that
\* show another.
MaxActiveArbsTest ==
  TradesOf(<< TestArb(1, FALSE, FALSE, 99), TestArb(2, FALSE, FALSE, 98),
              TestArb(3, FALSE, FALSE, 97), TestArb(4, FALSE, FALSE, 96),
              TestArb(5, FALSE, FALSE, 95) >>,
           "buyOnDEX", 1, 5, 5, FALSE, FALSE) = << 0, 0 >>

\* "self-match": an arb that buys on the DEX at the rate the books' arb
\* would sell at.
SelfMatchTest ==
  TradesOf(<< TestArb(1, FALSE, FALSE, 98) >>, "sellOnDEX", 1, 5, 5, TRUE, FALSE)
    = << 0, 0 >>

\* "cex trade error".
CexTradeErrorTest ==
  TradesOf(<< >>, "buyOnDEX", 1, 5, 5, FALSE, TRUE) = << 0, 0 >>

\* C31: a rebalance that finds as many active arbs as MaxActiveArbs places
\* no DEX order and no CEX trade and starts no arb, whatever the books
\* show, and the active arbs are never more than MaxActiveArbs; the test
\* "already max active arbs" places nothing.
C31_MaxActiveArbs ==
  /\ [](MaxActiveArbsTest)
  /\ [](Len(activeArbs) <= MaxActiveArbs /\ Len(arbsBefore) <= MaxActiveArbs)
  /\ [][ currEpoch' # currEpoch /\ Len(activeArbs) >= MaxActiveArbs =>
           /\ dexOrder' = 0 /\ cexTrade' = 0
           /\ arbsStarted' = arbsStarted /\ arbsBefore' = activeArbs ]_vars

\* C31 witness: the third rebalance found two active arbs and an arb that
\* the balances allowed, the rates did not cross and the CEX would have
\* traded, and placed nothing.
C31_Witness ==
  /\ currEpoch = 3 /\ Len(arbsBefore) = MaxActiveArbs /\ arbsStarted = 2
  /\ arbFound # "none" /\ dexMaxQty > 0 /\ cexMaxQty > 0
  /\ ~ratesCross /\ ~cexTradeErr
  /\ dexOrder = 0 /\ cexTrade = 0

\* The arb goes the other way than the arb rebalance found and its DEX
\* order is open.
OpenOpposite(a) ==
  /\ arbFound # "none" /\ a.sellOnDEX # (arbFound = "sellOnDEX")
  /\ ~a.dexOrderFilled

C33_BothLegs ==
  /\ RebalanceTradeTests /\ CexTradeErrorTest
  /\ cexTradeErr => dexOrder = 0
  /\ dexMaxQty = 0 \/ cexMaxQty = 0 => dexOrder = 0 /\ cexTrade = 0
  /\ dexOrder > 0 => cexTrade = dexOrder
  /\ dexOrder <= dexMaxQty /\ dexOrder <= cexMaxQty
  /\ cexTrade <= dexMaxQty /\ cexTrade <= cexMaxQty

\* C33 witness: the first rebalance found an arb the balances allowed and
\* the CEX failed the trade: no DEX order was placed and no arb started.
C33_Witness ==
  /\ currEpoch = 1 /\ arbFound # "none" /\ cexTradeErr
  /\ dexMaxQty > 0 /\ cexMaxQty > 0
  /\ dexOrder = 0 /\ cexTrade = 0 /\ activeArbs = << >> /\ arbsStarted = 0

\* C34 (as claimed): no reader executes its send on the inbound channel
\* once the channel is closed: a reader that holds a decoded message, or
\* waits for room in the channel, sends before the shutdown watcher closes
\* the channel or not at all.
C34_NoSendAfterClose ==
  [][ \A s \in Readers :
        rpc[s] = "push" /\ readChClosed => ~(panicked' /\ ~panicked) ]_vars

\* The shutdown watcher has set the status after the cancellation.
WatcherHasSet == wpc \in {"hook", "close", "lock", "drain", "done"}

\* C35 (as claimed): once the shutdown watcher has set the status to
\* Disconnected the status is never Connected again and the hook is never
\* called with Connected, also when a keepalive dial succeeds while the
\* context is cancelled.
C35_StaysDown ==
  [][ WatcherHasSet =>
        /\ connectionStatus' # Connected
        /\ lastHook' # lastHook => lastHook' # Connected ]_vars

\* Shutdown has completed: Connect returned the WaitGroup and every
\* goroutine it tracks has ended.
ShutdownComplete ==
  /\ cpc = "returned" /\ wpc = "done" /\ WgCount = 0

\* C36 (as claimed): once shutdown has completed no socket the dialer
\* installed is open, and at no time is a socket open that was installed
\* and has since been replaced.
C36_AllClosed ==
  /\ ShutdownComplete => open = {}
  /\ \A s \in open : s = ws \/ (s = dsock /\ dpc = "install")

\* The read loops that are running: started, and neither returned on the
\* cancelled context nor through handleReadError.
AliveReaders == {s \in Readers : rpc[s] \notin {"none", "done"}}

\* A dial is under way, up to its setConnectionStatus.
Dialling == dpc \in {"dial", "install", "swap", "hook"}

C38_OwnTimer ==
  [][ \A r \in Reqs :
        timer[r] = "fired" /\ timer'[r] = "done" =>
          /\ respHandlers[rid[r]] \in {NULL, r}
          /\ ranExpire'[r] # ranExpire[r] => respHandlers[rid[r]] = r ]_vars

\* C39 (as claimed): an expire or abort function runs only while nobody
\* holds reqMtx, whether the expiry timer or the shutdown drain runs it, so
\* that it may itself register a handler.
C39_OutsideLock ==
  [][ \A r \in Reqs :
        ranExpire'[r] # ranExpire[r] => reqMtx = "free" /\ reqMtx' = "free" ]_vars

\* The step belongs to a read error, a status transition or a dial.
ConnectionEvent ==
  \/ connectionStatus' # connectionStatus \/ lastHook' # lastHook
  \/ ws' # ws \/ dpc' # dpc \/ kpc' # kpc \/ reconnectCh' # reconnectCh
  \/ \E s \in Readers :
       rpc'[s] # rpc[s] /\ (rpc[s] \in {"swap", "hook", "trigger"} \/ rpc'[s] = "swap")

\* The step removes the entry of registration r for one of the causes the
\* registry knows: a response with the ID of r is dispatched, the expiry
\* timer of r has fired, the sender of r discards the entry after a failed
\* send, or the shutdown drain aborts r.
RemovalCause(r) ==
  \/ \E s \in Readers : rpc[s] = "resp" /\ rpc'[s] # "resp" /\ rmsg[s] = rid[r]
  \/ timer[r] = "fired" /\ timer'[r] = "done"
  \/ rq[r] = "drop" /\ rq'[r] = "done"
  \/ wpc = "drain" /\ drained'[r] = drained[r] + 1

\* C40 (as claimed): a read error, a status transition and a dial, failed
\* or not, leave the registry and the timers as they are; an entry leaves
\* the registry only by a matching response, its own expiry, its sender's
\* discard after a failed send or the shutdown drain, and until then its
\* timer stays armed or has fired.
C40_RegistryFrame ==
  [][ /\ ConnectionEvent => respHandlers' = respHandlers /\ timer' = timer
      /\ \A r \in Reqs :
           /\ r \in Registered /\ r \notin Registered' => RemovalCause(r)
           /\ r \in Registered' => timer'[r] \in {"armed", "fired"} ]_vars
====
